---- MODULE Spec2Model ----
(***************************************************************************)
(* Verification model of parts of Elemental:                               *)
(*   - qp::direct::IPF, the infeasible path-following interior point loop  *)
(*     (src/src/optimization/solvers/QP/direct/IPM/IPF.cpp), Spec SpecIPF  *)
(*   - DistNodalMultiVec<T>::Pull / Push, the nodal remap                  *)
(*     (src/src/lapack_like/factor/sparse/numeric/DistNodalMultiVec.cpp),  *)
(*     Spec SpecNodal                                                      *)
(* Real numbers are exact rationals <<numerator, denominator>>; rounding   *)
(* of floating point arithmetic is not modelled.                           *)
(***************************************************************************)
EXTENDS Integers, Sequences, FiniteSets, TLC

VARIABLES
    \* ---- qp::direct::IPF ----
    pc,        \* position inside the IPF call
    err,       \* the exception that ended the call, or "none"
    ctrl,      \* IPFCtrl: system, maxIts, tol, primalInitialized, dualInitialized
    QPre, APre, bPre, cPre,   \* caller-owned inputs
    Q, A, b, c,               \* local copies made by IPF
    dRow, dCol,               \* equilibration scalings
    x, y, z,                  \* caller-owned iterate, updated in place
    entry,                    \* (x, y, z) as they were when IPF was called
    start,                    \* (x, y, z) as Initialize left them
    bNrm2, cNrm2,
    numIts,
    conv,      \* objConv, rbConvSq, rcConvSq of the last convergence test
    rb, rc,
    dx, dy, dz,
    alpha,     \* the step length of the last step
    phases,    \* the sequence of phases executed so far
    \* ---- DistNodalMultiVec Pull / Push ----
    npc,       \* position inside Pull followed by Push
    nerr,      \* LogicError raised by a DEBUG_ONLY check, or "none"
    debugBuild,\* whether DEBUG_ONLY( ... ) is compiled in
    commSize,  \* number of processes
    info,      \* per process: localNodes and distNodes of the elimination tree
    inverseMap,\* tree ordering -> original ordering
    X,         \* the flat vector given to Pull, rows 0..height-1
    width,
    mappedInds,\* per process
    sizes,     \* per process: sendSizes, recvSizes (as in the code of the phase)
    inds,      \* per process: sendInds, recvInds
    vals,      \* per process: sendVals, recvVals
    unpacked,  \* per process: number of indices unpacked by Pull
    nodal,     \* per process: localNodes, distNodes of the DistNodalMultiVec
    Y,         \* the flat vector written by Push, rows 0..height-1
    \* ---- qp::direct::IPF, sparse variant ----
    map, invMap,      \* the nested dissection ordering and its inverse
    treeCalls,        \* number of times the elimination tree was computed
    treeRead,         \* the (map, invMap) each round of Pulls has read
    regCand,          \* the regularization candidates
    increasedReg,
    numLargeRefines,  \* result of the last reg_qsd_ldl::SolveAfter
    reports,          \* the results of all reg_qsd_ldl::SolveAfter calls so far
    \* ---- triang_eig::MultiShiftDiagonalBlockSolve / MultiShiftSolve ----
    mpc,       \* position inside the call
    merr,      \* the LogicError that ended the call, or "none"
    U,         \* the upper triangular matrix, rows 1..m
    shifts,    \* one shift per column of the right-hand sides
    B,         \* the right-hand sides X as they were on entry
    XS,        \* X, overwritten in place
    scales,
    cols,      \* per column: path and guards of the diagonal block solve
    bsize,     \* Blocksize()
    kPanel,    \* offset k of the next panel of MultiShiftSolve
    XMax,      \* MultiShiftSolve's bound on the entries of each column
    grid,      \* the process grid of the distributed MultiShiftSolve
    \* ---- HatanoNelson ----
    hpc,       \* position inside the HatanoNelson call
    herr,      \* the exception that ended the call, or "none"
    hn,        \* the arguments n, center, radius, g, periodic, and the
               \* overload called
    HNA        \* the matrix A

ipfVars == <<pc, err, ctrl, QPre, APre, bPre, cPre, Q, A, b, c, dRow, dCol,
             x, y, z, entry, start, bNrm2, cNrm2, numIts, conv, rb, rc,
             dx, dy, dz, alpha, phases>>
nodalVars == <<npc, nerr, debugBuild, commSize, info, inverseMap, X, width,
               mappedInds,
               sizes, inds, vals, unpacked, nodal, Y>>
sparseVars == <<map, invMap, treeCalls, treeRead, regCand, increasedReg,
                numLargeRefines, reports>>
msVars ==
    <<mpc, merr, U, shifts, B, XS, scales, cols, bsize, kPanel, XMax, grid>>
hnVars == <<hpc, herr, hn, HNA>>
vars == <<ipfVars, nodalVars, sparseVars, msVars, hnVars>>
\* what the actions of each part leave alone
outsideIPF == <<nodalVars, sparseVars, msVars, hnVars>>
outsideSparse == <<nodalVars, msVars, hnVars>>
outsideNodal == <<ipfVars, sparseVars, msVars, hnVars>>
outsideMS == <<ipfVars, nodalVars, sparseVars, hnVars>>
outsideHN == <<ipfVars, nodalVars, sparseVars, msVars>>

MSIdle ==
    /\ mpc = "idle" /\ merr = "none" /\ U = <<>> /\ shifts = <<>> /\ B = <<>>
    /\ XS = <<>> /\ scales = <<>> /\ cols = <<>> /\ bsize = 0 /\ kPanel = 0
    /\ XMax = <<>>
    /\ grid = <<1, 1>>

HNIdle == hpc = "idle" /\ herr = "none" /\ hn = <<>> /\ HNA = <<>>

(***************************************************************************)
(* Exact rational arithmetic                                               *)
(***************************************************************************)
IAbs(i) == IF i < 0 THEN -i ELSE i

RECURSIVE GCD(_, _)
GCD(i, j) == IF j = 0 THEN i ELSE GCD(j, i % j)

Rat(n, d) ==
    LET s == IF d < 0 THEN -1 ELSE 1
        g == GCD(IAbs(n), IAbs(d))
    IN  <<(s * n) \div g, (s * d) \div g>>

R(n) == <<n, 1>>
RAdd(p, q) == Rat(p[1] * q[2] + q[1] * p[2], p[2] * q[2])
RSub(p, q) == Rat(p[1] * q[2] - q[1] * p[2], p[2] * q[2])
RMul(p, q) == Rat(p[1] * q[1], p[2] * q[2])
RDiv(p, q) == Rat(p[1] * q[2], p[2] * q[1])
RNeg(p) == <<-p[1], p[2]>>
RAbs(p) == <<IAbs(p[1]), p[2]>>
RLeq(p, q) == p[1] * q[2] <= q[1] * p[2]
RLt(p, q) == p[1] * q[2] < q[1] * p[2]
RMin(p, q) == IF RLt(q, p) THEN q ELSE p
RMax(p, q) == IF RLt(p, q) THEN q ELSE p

ISqrt(n) == CHOOSE k \in 0..n : k * k = n
\* square root of a rational that is a perfect square
RSqrt(p) == <<ISqrt(p[1]), ISqrt(p[2])>>

RECURSIVE RSum(_)
RSum(s) == IF s = <<>> THEN R(0) ELSE RAdd(Head(s), RSum(Tail(s)))

(***************************************************************************)
(* BLAS-like operations used by IPF; a vector is a sequence of rationals,  *)
(* a matrix a sequence of rows                                             *)
(***************************************************************************)
Dot(u, v) == RSum([i \in 1..Len(u) |-> RMul(u[i], v[i])])
Nrm2Sq(v) == Dot(v, v)
Nrm2(v) == RSqrt(Nrm2Sq(v))
Scale(coef, v) == [i \in 1..Len(v) |-> RMul(coef, v[i])]
\* Axpy( alpha, X, Y ): Y := alpha X + Y
Axpy(coef, u, v) == [i \in 1..Len(v) |-> RAdd(RMul(coef, u[i]), v[i])]
\* Ones( v, k, 1 ); all zeros instead
OnesAreZeros(k) == [i \in 1..k |-> R(0)]

Ones(k) == [i \in 1..k |-> R(1)]

\* Gemv( NORMAL, 1, A, x, beta, yv ): yv := A x + beta yv
Gemv(M, v, beta, yv) ==
    [i \in 1..Len(M) |-> RAdd(Dot(M[i], v), RMul(beta, yv[i]))]
\* Gemv( TRANSPOSE, 1, A, yy, 1, v ): v := A^T yy + v
GemvT(M, yy, v) ==
    [j \in 1..Len(v) |->
        RAdd(RSum([i \in 1..Len(M) |-> RMul(M[i][j], yy[i])]), v[j])]
\* Hemv( LOWER, 1, Q, x, beta, yv ): only the lower triangle of Q is read
Hemv(M, v, beta, yv) ==
    [i \in 1..Len(M) |->
        RAdd(RSum([j \in 1..Len(v) |->
                RMul(IF j <= i THEN M[i][j] ELSE M[j][i], v[j])]),
             RMul(beta, yv[i]))]
\* DiagonalSolve( LEFT, NORMAL, d, v ): v_i := v_i / d_i
DiagonalSolveMultiplies(d, v) == [i \in 1..Len(v) |-> RMul(d[i], v[i])]

DiagonalSolve(d, v) == [i \in 1..Len(v) |-> RDiv(v[i], d[i])]

\* DiagonalScale( LEFT, NORMAL, d, v ): v_i := d_i v_i
DiagonalScale(d, v) == [i \in 1..Len(v) |-> RMul(d[i], v[i])]
\* DiagonalSolve LEFT then RIGHT with the same d on a square matrix
SymmetricDiagonalSolve(d, M) ==
    [i \in 1..Len(M) |-> [j \in 1..Len(M[i]) |->
        RDiv(RDiv(M[i][j], d[i]), d[j])]]
NumNonPositive(v) == Cardinality({i \in 1..Len(v) : v[i][1] <= 0})

(***************************************************************************)
(* qp::direct::IPF (IPF.cpp).  The four variants (dense, distributed       *)
(* dense, sparse, distributed sparse) share the loop modelled here; line   *)
(* numbers refer to the dense sequential variant.                          *)
(***************************************************************************)
\* bound on ctrl.maxIts in the inputs, and on the steps taken when the
\* iteration cap never fires
MaxIts == 2

KKTSystems == {"FULL_KKT", "AUGMENTED_KKT", "NORMAL_KKT"}

V2(p, q) == <<p, q>>
V1(p) == <<p>>

\* Problem instances  min (1/2) x^T Q x + c^T x  s.t.  A x = b, x >= 0
\* (n = 2, m = 1; Q symmetric; || b ||_2 and || c ||_2 rational)
Instances ==
    { [Q |-> <<V2(R(1), R(0)), V2(R(0), R(1))>>, A |-> <<V2(R(1), R(1))>>,
       b |-> V1(R(2)), c |-> V2(R(0), R(0))],
      [Q |-> <<V2(R(2), R(1)), V2(R(1), R(2))>>, A |-> <<V2(R(1), R(0))>>,
       b |-> V1(R(1)), c |-> V2(R(3), R(4))] }

Tolerances == {Rat(1, 2), Rat(1, 100)}

\* (x, y, z) handed in by the caller
EntryX == {V2(R(1), R(1)), V2(R(2), R(1)), V2(R(0), R(1))}
EntryYZ ==
    { [y |-> V1(R(-1)), z |-> V2(R(0), R(0))],
      [y |-> V1(R(-1)), z |-> V2(Rat(1, 4), Rat(1, 4))],
      [y |-> V1(R(0)),  z |-> V2(R(1), R(1))] }
\* contents of an output argument the caller did not initialize
Unset2 == V2(R(0), R(0))
Unset1 == V1(R(0))

\* Results of the external Initialize heuristic (strictly positive x, z)
HeuristicX == {V2(R(2), R(1))}
HeuristicYZ == {[y |-> V1(R(0)), z |-> V2(R(1), R(1))]}

\* Directions (dx, dy, dz) the KKT solve may return
Directions ==
    { [dx |-> V2(R(-2), R(0)),  dy |-> V1(R(0)),  dz |-> V2(R(1), R(1))],
      [dx |-> V2(R(1), R(0)),   dy |-> V1(R(1)),  dz |-> V2(R(-2), R(-1))],
      [dx |-> V2(R(-1), R(0)),  dy |-> V1(R(-1)), dz |-> V2(R(-1), R(-1))] }

\* Step lengths the line search may settle on
StepLengths == {R(0), Rat(1, 2), R(1)}

\* IPFLineSearch( ..., upperBound, ... ) is an external routine: it returns
\* some step length 0 <= step <= upperBound
IPFLineSearch(upperBound) == {step \in StepLengths : RLeq(step, upperBound)}

\* MaxStepInPositiveCone( s, ds, upperBound ): the largest step <= upperBound
\* with s + step ds >= 0 (ratio test over the negative entries of ds)
RECURSIVE RatioTest(_, _, _, _)
RatioTest(s, ds, i, step) ==
    IF i > Len(s) THEN step
    ELSE RatioTest(s, ds, i + 1,
            IF ds[i][1] < 0 THEN RMin(step, RDiv(RNeg(s[i]), ds[i]))
            ELSE step)
MaxStepInPositiveCone(s, ds, upperBound) == RatioTest(s, ds, 1, upperBound)

\* the cone check raising only when both x and z leave the cone
BothOutsideCone(xv, zv) == NumNonPositive(xv) > 0 /\ NumNonPositive(zv) > 0

\* line 103: the cone check
OutsideCone(xv, zv) == NumNonPositive(xv) > 0 \/ NumNonPositive(zv) > 0

\* the convergence test accepting any one of the three measures
AnyConverged(cv, tol) ==
    \/ RLeq(cv.objConv, tol)
    \/ RLeq(cv.rbConvSq, RMul(tol, tol))
    \/ RLeq(cv.rcConvSq, RMul(tol, tol))

\* line 143: the convergence test on objConv, rbConv, rcConv; the two
\* residual measures are kept squared, r^2 <= tol^2 being r <= tol for r >= 0
Converged(cv, tol) ==
    /\ RLeq(cv.objConv, tol)
    /\ RLeq(cv.rbConvSq, RMul(tol, tol))
    /\ RLeq(cv.rcConvSq, RMul(tol, tol))

\* line 148
CapReached(its, maxIts) == its = maxIts

\* lines 159, 171
ValidSystem(system) == system = "FULL_KKT" \/ system = "AUGMENTED_KKT"

\* the larger of the two step bounds
AlphaMaxOfLarger(alphaPrimal, alphaDual) == RMax(alphaPrimal, alphaDual)

\* line 221
AlphaMax(alphaPrimal, alphaDual) == RMin(alphaPrimal, alphaDual)

\* line 227: the bound handed to the line search
StepBound(alphaMax) == RMul(Rat(99, 100), alphaMax)

\* lines 112-132: the three convergence measures at (xv, yv, zv)
Measures(xv, yv, zv) ==
    LET d == Hemv(Q, xv, R(0), [i \in 1..Len(xv) |-> R(0)])
        xTQx == Dot(xv, d)
        primObj == RAdd(RDiv(xTQx, R(2)), Dot(c, xv))
        dualObj == RSub(RDiv(RNeg(xTQx), R(2)), Dot(b, yv))
        rbv == Gemv(A, xv, R(1), Scale(R(-1), b))
        rcv == Axpy(R(-1), zv, GemvT(A, yv, Hemv(Q, xv, R(1), c)))
        onePlusB == RAdd(R(1), bNrm2)
        onePlusC == RAdd(R(1), cNrm2)
    IN  [objConv |-> RDiv(RAbs(RSub(primObj, dualObj)),
                          RAdd(R(1), RAbs(primObj))),
         rbConvSq |-> RDiv(Nrm2Sq(rbv), RMul(onePlusB, onePlusB)),
         rcConvSq |-> RDiv(Nrm2Sq(rcv), RMul(onePlusC, onePlusC)),
         rb |-> rbv, rc |-> rcv]

callerInputs == <<QPre, APre, bPre, cPre>>

Raise(e) == pc' = "Error" /\ err' = e

\* lines 49-83
Equilibrate ==
    /\ pc = "Equilibrate"
    /\ A' = APre
    /\ dRow' = Ones(Len(APre))
    /\ dCol' = Ones(Len(APre[1]))
    /\ b' = DiagonalSolve(dRow', bPre)
    /\ c' = DiagonalSolve(dCol', cPre)
    /\ Q' = SymmetricDiagonalSolve(dCol', QPre)
    /\ x' = IF ctrl.primalInitialized THEN DiagonalScale(dCol', x) ELSE x
    /\ y' = IF ctrl.dualInitialized THEN DiagonalScale(dRow', y) ELSE y
    /\ z' = IF ctrl.dualInitialized THEN DiagonalSolve(dCol', z) ELSE z
    /\ bNrm2' = Nrm2(b')
    /\ cNrm2' = Nrm2(c')
    /\ pc' = "Initialize"
    /\ phases' = Append(phases, "Equilibrate")
    /\ UNCHANGED <<err, ctrl, callerInputs, entry, start, numIts, conv, rb, rc,
                   dx, dy, dz, alpha>>
    /\ UNCHANGED outsideIPF

\* lines 87-89; Initialize itself is an external routine
Initialize ==
    /\ pc = "Initialize"
    /\ x' \in IF ctrl.primalInitialized THEN {x} ELSE HeuristicX
    /\ \E yz \in IF ctrl.dualInitialized THEN {[y |-> y, z |-> z]}
                 ELSE HeuristicYZ :
          y' = yz.y /\ z' = yz.z
    /\ start' = [x |-> x', y |-> y', z |-> z']
    /\ pc' = "ConeCheck"
    /\ phases' = Append(phases, "Initialize")
    /\ UNCHANGED <<err, ctrl, callerInputs, Q, A, b, c, dRow, dCol, entry,
                   bNrm2, cNrm2, numIts, conv, rb, rc, dx, dy, dz, alpha>>
    /\ UNCHANGED outsideIPF

\* lines 99-106
ConeCheck ==
    /\ pc = "ConeCheck"
    /\ IF OutsideCone(x, z)
       THEN Raise("LogicError: entries of x or z were nonpositive")
       ELSE pc' = "ConvergenceTest" /\ err' = err
    /\ phases' = Append(phases, "ConeCheck")
    /\ UNCHANGED <<ctrl, callerInputs, Q, A, b, c, dRow, dCol, x, y, z, entry,
                   start, bNrm2, cNrm2, numIts, conv, rb, rc, dx, dy, dz,
                   alpha>>
    /\ UNCHANGED outsideIPF

\* the convergence test with rb sharing the storage of the caller's b, so
\* that Scale( -1, rb ) negates bPre
ConvergenceTestOnCallerB ==
    /\ pc = "ConvergenceTest"
    /\ LET ms == Measures(x, y, z) IN
        /\ conv' = [objConv |-> ms.objConv, rbConvSq |-> ms.rbConvSq,
                    rcConvSq |-> ms.rcConvSq]
        /\ rb' = ms.rb
        /\ rc' = ms.rc
    /\ pc' = IF Converged(conv', ctrl.tol) THEN "Unequilibrate"
             ELSE "IterationCap"
    /\ phases' = Append(phases, "ConvergenceTest")
    /\ UNCHANGED <<err, ctrl, Q, A, b, c, dRow, dCol, x, y, z,
                   entry, start, bNrm2, cNrm2, numIts, dx, dy, dz, alpha>>
    /\ bPre' = Scale(R(-1), bPre)
    /\ UNCHANGED <<QPre, APre, cPre>>
    /\ UNCHANGED outsideIPF

\* lines 108-144
ConvergenceTest ==
    /\ pc = "ConvergenceTest"
    /\ LET ms == Measures(x, y, z) IN
        /\ conv' = [objConv |-> ms.objConv, rbConvSq |-> ms.rbConvSq,
                    rcConvSq |-> ms.rcConvSq]
        /\ rb' = ms.rb
        /\ rc' = ms.rc
    /\ pc' = IF Converged(conv', ctrl.tol) THEN "Unequilibrate"
             ELSE "IterationCap"
    /\ phases' = Append(phases, "ConvergenceTest")
    /\ UNCHANGED <<err, ctrl, Q, A, b, c, dRow, dCol, x, y, z,
                   entry, start, bNrm2, cNrm2, numIts, dx, dy, dz, alpha>>
    /\ UNCHANGED callerInputs
    /\ UNCHANGED outsideIPF

\* the iteration cap rolling the iterate back before it raises
IterationCapRollingBack ==
    /\ pc = "IterationCap"
    /\ IF CapReached(numIts, ctrl.maxIts)
       THEN /\ Raise("RuntimeError: Maximum number of iterations exceeded")
            /\ x' = start.x /\ y' = start.y /\ z' = start.z
       ELSE /\ pc' = "SearchDirection" /\ err' = err
            /\ UNCHANGED <<x, y, z>>
    /\ phases' = Append(phases, "IterationCap")
    /\ UNCHANGED <<ctrl, callerInputs, Q, A, b, c, dRow, dCol, entry,
                   start, bNrm2, cNrm2, numIts, conv, rb, rc, dx, dy, dz,
                   alpha>>
    /\ UNCHANGED outsideIPF

\* the iteration cap leaving the loop without an error
IterationCapBreaking ==
    /\ pc = "IterationCap"
    /\ IF CapReached(numIts, ctrl.maxIts)
       THEN pc' = "Unequilibrate"
       ELSE pc' = "SearchDirection"
    /\ phases' = Append(phases, "IterationCap")
    /\ UNCHANGED <<err, ctrl, callerInputs, Q, A, b, c, dRow, dCol, x, y, z,
                   entry, start, bNrm2, cNrm2, numIts, conv, rb, rc,
                   dx, dy, dz, alpha>>
    /\ UNCHANGED outsideIPF

\* lines 146-150
IterationCap ==
    /\ pc = "IterationCap"
    /\ IF CapReached(numIts, ctrl.maxIts)
       THEN Raise("RuntimeError: Maximum number of iterations exceeded")
       ELSE pc' = "SearchDirection" /\ err' = err
    /\ phases' = Append(phases, "IterationCap")
    /\ UNCHANGED <<ctrl, callerInputs, Q, A, b, c, dRow, dCol, x, y, z, entry,
                   start, bNrm2, cNrm2, numIts, conv, rb, rc, dx, dy, dz,
                   alpha>>
    /\ UNCHANGED outsideIPF

\* lines 152-184; KKT assembly and SymmetricSolve are external, their result
\* is any of Directions
SearchDirection ==
    /\ pc = "SearchDirection"
    /\ numIts <= MaxIts
    /\ IF ValidSystem(ctrl.system)
       THEN /\ \E dir \in Directions :
                  dx' = dir.dx /\ dy' = dir.dy /\ dz' = dir.dz
            /\ pc' = "TakeStep"
            /\ err' = err
       ELSE /\ Raise("LogicError: Invalid KKT system choice")
            /\ UNCHANGED <<dx, dy, dz>>
    /\ phases' = Append(phases, "SearchDirection")
    /\ UNCHANGED <<ctrl, callerInputs, Q, A, b, c, dRow, dCol, x, y, z, entry,
                   start, bNrm2, cNrm2, numIts, conv, rb, rc, alpha>>
    /\ UNCHANGED outsideIPF

\* lines 217-233 and the ++numIts of line 97
TakeStep ==
    /\ pc = "TakeStep"
    /\ LET alphaPrimal == MaxStepInPositiveCone(x, dx, R(1))
           alphaDual == MaxStepInPositiveCone(z, dz, R(1))
           alphaMax == AlphaMax(alphaPrimal, alphaDual)
       IN  alpha' \in IPFLineSearch(StepBound(alphaMax))
    /\ x' = Axpy(alpha', dx, x)
    /\ y' = Axpy(alpha', dy, y)
    /\ z' = Axpy(alpha', dz, z)
    /\ numIts' = numIts + 1
    /\ pc' = "ConeCheck"
    /\ phases' = Append(phases, "TakeStep")
    /\ UNCHANGED <<err, ctrl, callerInputs, Q, A, b, c, dRow, dCol, entry,
                   start, bNrm2, cNrm2, conv, rb, rc, dx, dy, dz>>
    /\ UNCHANGED outsideIPF

\* lines 236-239
Unequilibrate ==
    /\ pc = "Unequilibrate"
    /\ x' = DiagonalSolve(dCol, x)
    /\ y' = DiagonalSolve(dRow, y)
    /\ z' = DiagonalScale(dCol, z)
    /\ pc' = "Done"
    /\ phases' = Append(phases, "Unequilibrate")
    /\ UNCHANGED <<err, ctrl, callerInputs, Q, A, b, c, dRow, dCol, entry,
                   start, bNrm2, cNrm2, numIts, conv, rb, rc, dx, dy, dz,
                   alpha>>
    /\ UNCHANGED outsideIPF

NodalIdle ==
    /\ npc = "idle" /\ nerr = "none" /\ commSize = 0 /\ info = <<>>
    /\ inverseMap = <<>> /\ X = <<>> /\ width = 0 /\ mappedInds = <<>>
    /\ sizes = <<>> /\ inds = <<>> /\ vals = <<>> /\ unpacked = <<>>
    /\ nodal = <<>> /\ Y = <<>>
    /\ debugBuild = TRUE

SparseIdle ==
    /\ map = <<>> /\ invMap = <<>> /\ treeCalls = 0 /\ treeRead = <<>>
    /\ regCand = <<>> /\ increasedReg = FALSE /\ numLargeRefines = 0
    /\ reports = <<>>

InitIPF ==
    /\ pc = "Equilibrate"
    /\ err = "none"
    /\ ctrl \in [system : KKTSystems, maxIts : -1..MaxIts, tol : Tolerances,
                 primalInitialized : BOOLEAN, dualInitialized : BOOLEAN]
    /\ \E inst \in Instances :
          QPre = inst.Q /\ APre = inst.A /\ bPre = inst.b /\ cPre = inst.c
    /\ x \in IF ctrl.primalInitialized THEN EntryX ELSE {Unset2}
    /\ \E yz \in IF ctrl.dualInitialized THEN EntryYZ
                 ELSE {[y |-> Unset1, z |-> Unset2]} :
          y = yz.y /\ z = yz.z
    /\ entry = [x |-> x, y |-> y, z |-> z]
    /\ start = entry
    /\ alpha = R(0)
    /\ Q = <<>> /\ A = <<>> /\ b = <<>> /\ c = <<>>
    /\ dRow = <<>> /\ dCol = <<>>
    /\ bNrm2 = R(0) /\ cNrm2 = R(0)
    /\ numIts = 0
    /\ conv = [objConv |-> R(0), rbConvSq |-> R(0), rcConvSq |-> R(0)]
    /\ rb = <<>> /\ rc = <<>>
    /\ dx = <<>> /\ dy = <<>> /\ dz = <<>>
    /\ phases = <<>>
    /\ NodalIdle
    /\ SparseIdle
    /\ MSIdle
    /\ HNIdle

NextIPF ==
    \/ Equilibrate
    \/ Initialize
    \/ ConeCheck
    \/ ConvergenceTest
    \/ IterationCap
    \/ SearchDirection
    \/ TakeStep
    \/ Unequilibrate

SpecIPF == InitIPF /\ [][NextIPF]_vars

(***************************************************************************)
(* The scaling of the iterate on entry and its inverse on return, for the  *)
(* scalings GeomEquil could produce (the build has allowEquil = false and  *)
(* both scalings all ones)                                                 *)
(***************************************************************************)
ScalingEntries == {R(1), R(2), Rat(1, 2)}
ScalingsRow == {V1(d1) : d1 \in ScalingEntries}
ScalingsCol == {V2(d1, d2) : d1, d2 \in ScalingEntries}
IteratesX == {V2(R(1), R(1)), V2(R(2), Rat(1, 3)), V2(R(0), R(3))}
IteratesY == {V1(R(-1)), V1(Rat(1, 3)), V1(R(0))}
IteratesZ == {V2(R(1), R(1)), V2(Rat(1, 4), R(3)), V2(R(0), R(2))}

InitScaling ==
    /\ pc = "EntryScaling"
    /\ err = "none"
    /\ ctrl \in [primalInitialized : BOOLEAN, dualInitialized : BOOLEAN]
    /\ dRow \in ScalingsRow
    /\ dCol \in ScalingsCol
    /\ x \in IteratesX /\ y \in IteratesY /\ z \in IteratesZ
    /\ entry = [x |-> x, y |-> y, z |-> z]
    /\ QPre = <<>> /\ APre = <<>> /\ bPre = <<>> /\ cPre = <<>>
    /\ Q = <<>> /\ A = <<>> /\ b = <<>> /\ c = <<>>
    /\ start = <<>> /\ alpha = <<>> /\ bNrm2 = <<>> /\ cNrm2 = <<>>
    /\ numIts = 0 /\ conv = <<>> /\ rb = <<>> /\ rc = <<>>
    /\ dx = <<>> /\ dy = <<>> /\ dz = <<>> /\ phases = <<>>
    /\ NodalIdle /\ SparseIdle /\ MSIdle /\ HNIdle

\* lines 74-80
EntryScaling ==
    /\ pc = "EntryScaling"
    /\ x' = IF ctrl.primalInitialized THEN DiagonalScale(dCol, x) ELSE x
    /\ y' = IF ctrl.dualInitialized THEN DiagonalScale(dRow, y) ELSE y
    /\ z' = IF ctrl.dualInitialized THEN DiagonalSolve(dCol, z) ELSE z
    /\ pc' = "Unequilibrate"
    /\ phases' = Append(phases, "EntryScaling")
    /\ UNCHANGED <<err, ctrl, callerInputs, Q, A, b, c, dRow, dCol, entry,
                   start, bNrm2, cNrm2, numIts, conv, rb, rc, dx, dy, dz,
                   alpha>>
    /\ UNCHANGED outsideIPF

NextScaling ==
    \/ EntryScaling
    \/ Unequilibrate

SpecScaling == InitScaling /\ [][NextScaling]_vars

(***************************************************************************)
(* The loop of IPF (lines 97-234) on iterates that stay inside the cone    *)
(* and never pass the convergence test, with every external call           *)
(* returning: what remains of an iteration is the iteration cap, the       *)
(* choice of the KKT system and the ++numIts of the for statement.  Int is *)
(* a signed machine integer, here with the values MinInt..MaxInt;          *)
(* incrementing the largest one is undefined, and any value may follow.    *)
(***************************************************************************)
MaxInt == MaxIts + 1
MinInt == -MaxInt - 1

\* ++numIts, line 97
Incremented(its) == IF its < MaxInt THEN {its + 1} ELSE MinInt..MaxInt

InitLoop ==
    /\ pc = "Loop"
    /\ err = "none"
    /\ ctrl \in [system : KKTSystems, maxIts : -1..MaxIts, tol : Tolerances,
                 primalInitialized : BOOLEAN, dualInitialized : BOOLEAN]
    /\ numIts = 0
    /\ QPre = <<>> /\ APre = <<>> /\ bPre = <<>> /\ cPre = <<>>
    /\ Q = <<>> /\ A = <<>> /\ b = <<>> /\ c = <<>>
    /\ dRow = <<>> /\ dCol = <<>> /\ x = <<>> /\ y = <<>> /\ z = <<>>
    /\ entry = <<>> /\ start = <<>> /\ alpha = <<>>
    /\ bNrm2 = <<>> /\ cNrm2 = <<>>
    /\ conv = <<>> /\ rb = <<>> /\ rc = <<>>
    /\ dx = <<>> /\ dy = <<>> /\ dz = <<>> /\ phases = <<>>
    /\ NodalIdle /\ SparseIdle /\ MSIdle /\ HNIdle

\* one pass of for( Int numIts=0; ; ++numIts ), lines 97-234
LoopIteration ==
    /\ pc = "Loop"
    /\ IF CapReached(numIts, ctrl.maxIts)
       THEN /\ Raise("RuntimeError: Maximum number of iterations exceeded")
            /\ numIts' = numIts
       ELSE IF ~ValidSystem(ctrl.system)
       THEN /\ Raise("LogicError: Invalid KKT system choice")
            /\ numIts' = numIts
       ELSE /\ numIts' \in Incremented(numIts)
            /\ UNCHANGED <<pc, err>>
    /\ UNCHANGED <<ctrl, callerInputs, Q, A, b, c, dRow, dCol, x, y, z, entry,
                   start, bNrm2, cNrm2, conv, rb, rc, dx, dy, dz, alpha,
                   phases>>
    /\ UNCHANGED outsideIPF

NextLoop == LoopIteration

\* a process that can run the next pass of the loop runs it
FairLoop == InitLoop /\ [][NextLoop]_vars /\ WF_vars(LoopIteration)

(***************************************************************************)
(* qp::direct::IPF, sparse sequential variant (IPF.cpp lines 469-785).     *)
(* Equilibration, cone check, convergence test, iteration cap, step and    *)
(* unequilibration are the statements of the dense variant (lines 481-514, *)
(* 589-641, 764-778, 782-784) and are modelled by the actions above; the   *)
(* elimination tree and the regularization are modelled here.              *)
(***************************************************************************)
\* Pow(epsilon,0.75) and Pow(epsilon,0.5) for a machine epsilon of 1/16
regMagPrimal == Rat(1, 8)
regMagLagrange == Rat(1, 4)
regMagDual == Rat(1, 4)

\* lines 552-580: regCand as set up before the loop (empty when ctrl.system
\* is neither FULL_KKT nor AUGMENTED_KKT)
InitialRegCand(system, m, n) ==
    IF system = "FULL_KKT"
    THEN [i \in 1..(m + 2 * n) |->
            IF i - 1 < n THEN regMagPrimal
            ELSE IF i - 1 < n + m THEN RNeg(regMagLagrange)
            ELSE RNeg(regMagDual)]
    ELSE IF system = "AUGMENTED_KKT"
    THEN [i \in 1..(n + m) |->
            IF i - 1 < n THEN regMagPrimal ELSE RNeg(regMagLagrange)]
    ELSE <<>>

\* height of the KKT matrix J
KKTSize(system, m, n) == IF system = "FULL_KKT" THEN m + 2 * n ELSE n + m

\* orderings NestedDissection may return for a graph of k vertices
Orderings(k) == { [i \in 1..k |-> i], [i \in 1..k |-> k + 1 - i] }

InvertMap(perm) ==
    [i \in 1..Len(perm) |-> CHOOSE j \in 1..Len(perm) : perm[j] = i]

\* Initialize factors an augmented system, and with it computes the
\* elimination tree, unless both the primal and the dual iterate are given
InitializeBuildsTree(primalInit, dualInit) == ~(primalInit /\ dualInit)

\* a dissection in every iteration
NeedsDissectionEveryIteration(system, primalInit, dualInit, its) ==
    IF system = "FULL_KKT" THEN TRUE ELSE primalInit /\ dualInit

\* lines 667 and 703
NeedsDissection(system, primalInit, dualInit, its) ==
    IF system = "FULL_KKT" THEN its = 0
    ELSE primalInit /\ dualInit /\ its = 0

\* an escalation on every report above 3
ShouldIncreaseEveryTime(count, increased) == count > 3

\* lines 683 and 719
ShouldIncrease(count, increased) == count > 3 /\ ~increased

\* numbers of large refinements reg_qsd_ldl::SolveAfter may report
RefineCounts == {3, 4}

\* lines 516-582: Initialize, then the setup of regCand and increasedReg
SparseInitialize ==
    /\ pc = "Initialize"
    /\ x' \in IF ctrl.primalInitialized THEN {x} ELSE HeuristicX
    /\ \E yz \in IF ctrl.dualInitialized THEN {[y |-> y, z |-> z]}
                 ELSE HeuristicYZ :
          y' = yz.y /\ z' = yz.z
    /\ start' = [x |-> x', y |-> y', z |-> z']
    /\ IF /\ ctrl.system = "AUGMENTED_KKT"
          /\ InitializeBuildsTree(ctrl.primalInitialized,
                                  ctrl.dualInitialized)
       THEN /\ map' \in Orderings(Len(A[1]) + Len(A))
            /\ invMap' = InvertMap(map')
            /\ treeCalls' = treeCalls + 1
       ELSE UNCHANGED <<map, invMap, treeCalls>>
    /\ regCand' = InitialRegCand(ctrl.system, Len(A), Len(A[1]))
    /\ increasedReg' = FALSE
    /\ pc' = "ConeCheck"
    /\ phases' = Append(phases, "Initialize")
    /\ UNCHANGED <<err, ctrl, callerInputs, Q, A, b, c, dRow, dCol, entry,
                   bNrm2, cNrm2, numIts, conv, rb, rc, dx, dy, dz, alpha>>
    /\ UNCHANGED <<treeRead, numLargeRefines, reports>>
    /\ UNCHANGED outsideSparse

\* lines 643-727; KKT, RegularizedQSDLDL and reg_qsd_ldl::SolveAfter are
\* external, their results are any of Directions and RefineCounts
SparseSearchDirection ==
    /\ pc = "SearchDirection"
    /\ numIts <= MaxIts
    /\ IF ValidSystem(ctrl.system)
       THEN /\ IF NeedsDissection(ctrl.system, ctrl.primalInitialized,
                                  ctrl.dualInitialized, numIts)
               THEN /\ map' \in Orderings(KKTSize(ctrl.system, Len(A),
                                                  Len(A[1])))
                    /\ invMap' = InvertMap(map')
                    /\ treeCalls' = treeCalls + 1
               ELSE UNCHANGED <<map, invMap, treeCalls>>
            /\ treeRead' = Append(treeRead, [map |-> map', invMap |-> invMap'])
            /\ numLargeRefines' \in RefineCounts
            /\ reports' = Append(reports, numLargeRefines')
            /\ IF ShouldIncrease(numLargeRefines', increasedReg)
               THEN /\ regCand' = Scale(R(10), regCand)
                    /\ increasedReg' = TRUE
               ELSE UNCHANGED <<regCand, increasedReg>>
            /\ \E dir \in Directions :
                  dx' = dir.dx /\ dy' = dir.dy /\ dz' = dir.dz
            /\ pc' = "TakeStep"
            /\ err' = err
       ELSE /\ Raise("LogicError: Invalid KKT system choice")
            /\ UNCHANGED <<dx, dy, dz>>
            /\ UNCHANGED sparseVars
    /\ phases' = Append(phases, "SearchDirection")
    /\ UNCHANGED <<ctrl, callerInputs, Q, A, b, c, dRow, dCol, x, y, z, entry,
                   start, bNrm2, cNrm2, numIts, conv, rb, rc, alpha>>
    /\ UNCHANGED outsideSparse

\* the sparse call on the first instance, with the looser tolerance and an
\* interior iterate wherever the caller supplies one
InitSparse ==
    /\ InitIPF
    /\ bPre = V1(R(2))
    /\ ctrl.tol = Rat(1, 2)
    /\ ctrl.maxIts >= 1
    /\ ctrl.primalInitialized => x \in {V2(R(2), R(1)), V2(R(1), R(1))}
    /\ ctrl.dualInitialized => z \in {V2(R(1), R(1)), V2(Rat(1, 4), Rat(1, 4))}

NextSparse ==
    \/ Equilibrate
    \/ SparseInitialize
    \/ ConeCheck
    \/ ConvergenceTest
    \/ IterationCap
    \/ SparseSearchDirection
    \/ TakeStep
    \/ Unequilibrate

SpecSparse == InitSparse /\ [][NextSparse]_vars

(***************************************************************************)
(* DistNodalMultiVec<T>::Pull and Push (DistNodalMultiVec.cpp).            *)
(* Processes are 0..commSize-1, rows and tree indices count from 0 as in   *)
(* the code; arrays are TLA+ sequences, so array entry k is sequence       *)
(* element k+1.                                                            *)
(***************************************************************************)
MaxProcs == 3
MaxNodeSize == 2
MaxWidth == 2

Procs == 0..(commSize - 1)

RECURSIVE SumSeq(_)
SumSeq(s) == IF s = <<>> THEN 0 ELSE Head(s) + SumSeq(Tail(s))

RECURSIVE Flatten(_)
Flatten(ss) == IF ss = <<>> THEN <<>> ELSE Head(ss) \o Flatten(Tail(ss))

\* number of t in shift, shift+stride, ... below n
Length(n, shift, stride) ==
    IF shift < n THEN (n - shift - 1) \div stride + 1 ELSE 0

\* Shift( rank, alignment, stride )
Shift(rank, alignment, stride) == (rank + stride - alignment) % stride

\* ---- elimination trees ----
\* local supernodes of one process, laid out from offset off
RECURSIVE LocalLayout(_, _)
LocalLayout(shape, off) ==
    IF shape = <<>> THEN <<>>
    ELSE <<[size |-> Head(shape), off |-> off]>>
         \o LocalLayout(Tail(shape), off + Head(shape))

\* The tree over the team lo..hi-1, laid out in postorder from offset off:
\* left subtree, right subtree, then the separator shared by the team.
\* distNodes[0] of a process repeats its last local supernode (an empty node
\* where the process has no local supernode); Pull and Push never read it.
RECURSIVE BuildTree(_, _, _, _, _)
BuildTree(lo, hi, off, shapes, sepSizes) ==
    IF hi - lo = 1
    THEN LET loc == LocalLayout(shapes[lo], off)
             root == IF loc = <<>> THEN [size |-> 0, off |-> off]
                     ELSE loc[Len(loc)]
         IN  [next |-> off + SumSeq(shapes[lo]),
              procs |-> (lo :> [localNodes |-> loc,
                                distNodes |-> <<[size |-> root.size,
                                                 off |-> root.off,
                                                 gridSize |-> 1,
                                                 gridRank |-> 0,
                                                 localSize |-> root.size]>>])]
    ELSE LET mid == lo + (hi - lo + 1) \div 2
             left == BuildTree(lo, mid, off, shapes, sepSizes)
             right == BuildTree(mid, hi, left.next, shapes, sepSizes)
             sub == left.procs @@ right.procs
             sep(p) == [size |-> sepSizes[mid], off |-> right.next,
                        gridSize |-> hi - lo, gridRank |-> p - lo,
                        localSize |-> Length(sepSizes[mid], p - lo, hi - lo)]
         IN  [next |-> right.next + sepSizes[mid],
              procs |-> [p \in lo..(hi - 1) |->
                           [localNodes |-> sub[p].localNodes,
                            distNodes |-> Append(sub[p].distNodes, sep(p))]]]

\* the local supernodes of a process: none, one, two
LocalShapes == {<<>>, <<MaxNodeSize>>, <<1, 1>>}

\* info.distNodes.back() is the root supernode on every process
RootNode(p) == info[p].distNodes[Len(info[p].distNodes)]
TreeHeight == RootNode(0).size + RootNode(0).off

\* ---- DistMultiVec row distribution (blocks of height / commSize rows) ----
Blocksize(h) == h \div commSize
FirstLocalRow(h, q) == q * Blocksize(h)
XLocalHeight(h, q) ==
    IF q < commSize - 1 THEN Blocksize(h) ELSE h - (commSize - 1) * Blocksize(h)
RowOwner(h, i) ==
    IF Blocksize(h) = 0 THEN commSize - 1
    ELSE IF i \div Blocksize(h) < commSize - 1 THEN i \div Blocksize(h)
         ELSE commSize - 1

\* inverseMap.Translate( mappedInds )
Translate(perm, list) == [k \in 1..Len(list) |-> perm[list[k]]]

\* Scan( sizes, offs ): exclusive prefix sums and the total
ScanOffs(sz) == [q \in Procs |-> SumSeq([r \in 1..q |-> sz[r - 1]])]
ScanTotal(sz) == SumSeq([r \in 1..commSize |-> sz[r - 1]])

\* mpi::AllToAll with per-process counts and offsets: process p receives from
\* q, at its offset for q, the segment q holds for p
AllToAll(buf, cnt, unit) ==
    [p \in Procs |->
        Flatten([r \in 1..commSize |->
            LET q == r - 1
                first == ScanOffs(cnt[q])[p] * unit
            IN  SubSeq(buf[q], first + 1, first + cnt[q][p] * unit)])]

AllToAllCountsKeepsOwn(cnt) == [p \in Procs |-> [q \in Procs |-> cnt[p][q]]]

\* mpi::AllToAll of one count per destination
AllToAllCounts(cnt) == [p \in Procs |-> [q \in Procs |-> cnt[q][p]]]

\* lines 83-88 / 219-224: the tree indices of the local supernodes
LocalTreeInds(p) ==
    Flatten([s \in 1..Len(info[p].localNodes) |->
        [t \in 1..info[p].localNodes[s].size |->
            info[p].localNodes[s].off + t - 1]])

\* for( t=shift; t<size; t+=stride ) off+t
StridedInds(off, size, shift, stride) ==
    [k \in 1..Length(size, shift, stride) |-> off + shift + (k - 1) * stride]

PullDistTreeIndsFromRoot(p) ==
    Flatten([s \in 1..Len(info[p].distNodes) |->
        LET nodeInfo == info[p].distNodes[s]
            shift == Shift(nodeInfo.gridRank, 0, nodeInfo.gridSize)
        IN  StridedInds(nodeInfo.off, nodeInfo.size, shift, nodeInfo.gridSize)])

\* lines 89-99: the locally owned tree indices of distNodes[1..]
PullDistTreeInds(p) ==
    Flatten([s \in 1..(Len(info[p].distNodes) - 1) |->
        LET nodeInfo == info[p].distNodes[s + 1]
            shift == Shift(nodeInfo.gridRank, 0, nodeInfo.gridSize)
        IN  StridedInds(nodeInfo.off, nodeInfo.size, shift, nodeInfo.gridSize)])

\* lines 72-78
PullNumRecvInds(p) ==
    SumSeq([s \in 1..Len(info[p].localNodes) |-> info[p].localNodes[s].size])
    + SumSeq([s \in 1..(Len(info[p].distNodes) - 1) |->
                info[p].distNodes[s + 1].localSize])

\* lines 80-99: off, the number of entries of mappedInds the loops write
PullFilled(p) == Len(LocalTreeInds(p)) + Len(PullDistTreeInds(p))

\* line 80: vector<Int> mappedInds( numRecvInds ) holds numRecvInds zeros
\* before the loops write its first off entries
FilledInds(list, len) ==
    [k \in 1..len |-> IF k <= Len(list) THEN list[k] ELSE 0]

\* lines 80-106
PullMappedInds(p) ==
    Translate(inverseMap, FilledInds(LocalTreeInds(p) \o PullDistTreeInds(p),
                                     PullNumRecvInds(p)))

\* lines 111-113 / 237-239: how many of the indices each process owns
OwnerCounts(h, mapped) ==
    [q \in Procs |-> Cardinality({k \in 1..Len(mapped) :
                                    RowOwner(h, mapped[k]) = q})]

\* lines 116-122: recvInds[ offs[owner]++ ] = i
RECURSIVE BucketInds(_, _, _, _, _)
BucketInds(h, mapped, k, offs, arr) ==
    IF k > Len(mapped) THEN arr
    ELSE LET q == RowOwner(h, mapped[k]) IN
         BucketInds(h, mapped, k + 1, [offs EXCEPT ![q] = @ + 1],
                    [arr EXCEPT ![offs[q] + 1] = mapped[k]])

\* X.GetLocal( iLoc, . ) on process q: row iLoc of the shard of q
GetLocalRow(h, q, iLoc) == X[FirstLocalRow(h, q) + iLoc + 1]

\* lines 137-141: sendVals[s*width+j] = X.GetLocal( sendInds[s]-firstLocalRow, j )
PullSendVals(h, q, sendInds) ==
    Flatten([k \in 1..Len(sendInds) |->
                GetLocalRow(h, q, sendInds[k] - FirstLocalRow(h, q))])

\* every row asked of process q lies inside its shard
LocalRowsOnly(h, q, rowInds) ==
    \A k \in 1..Len(rowInds) :
        LET iLoc == rowInds[k] - FirstLocalRow(h, q)
        IN  0 <= iLoc /\ iLoc < XLocalHeight(h, q)

\* UnpackRows reading recvVals front to back, whoever sent the row
UnpackedFrontToBack(h, mapped, k, offs, recvVals) ==
    [r \in 1..Len(mapped) |-> SubSeq(recvVals, (r - 1) * width + 1, r * width)]

\* lines 160-190: the rows in the order they are unpacked,
\* row k being recvVals[offs[q]], ..., recvVals[offs[q]+width-1], offs[q] += width
RECURSIVE UnpackRows(_, _, _, _, _)
UnpackRows(h, mapped, k, offs, recvVals) ==
    IF k > Len(mapped) THEN <<>>
    ELSE LET q == RowOwner(h, mapped[k]) IN
         <<SubSeq(recvVals, offs[q] + 1, offs[q] + width)>>
         \o UnpackRows(h, mapped, k + 1, [offs EXCEPT ![q] = @ + width],
                       recvVals)

\* lines 162-190: the unpacked rows cut into nodes, in traversal order
PullNodes(p, rows) ==
    LET loc == info[p].localNodes
        dist == info[p].distNodes
        locOff(s) == SumSeq([r \in 1..(s - 1) |-> loc[r].size])
        numLoc == locOff(Len(loc) + 1)
        \* XNode.LocalHeight() after SetGrid and Resize( size, width )
        lh(s) == Length(dist[s + 1].size, dist[s + 1].gridRank,
                        dist[s + 1].gridSize)
        distOff(s) == numLoc + SumSeq([r \in 1..(s - 1) |-> lh(r)])
    IN  [localNodes |-> [s \in 1..Len(loc) |->
                            SubSeq(rows, locOff(s) + 1, locOff(s) + loc[s].size)],
         distNodes |-> [s \in 1..(Len(dist) - 1) |->
                            [height |-> dist[s + 1].size,
                             colShift |-> dist[s + 1].gridRank,
                             colStride |-> dist[s + 1].gridSize,
                             rows |-> SubSeq(rows, distOff(s) + 1,
                                             distOff(s) + lh(s))]],
         count |-> distOff(Len(dist))]

\* lines 71-122: every process lists the rows it needs, by owner
PullRequest ==
    /\ npc = "PullRequest"
    /\ LET h == Len(X) IN
        /\ mappedInds' = [p \in Procs |-> PullMappedInds(p)]
        /\ sizes' = [p \in Procs |->
                       [recv |-> OwnerCounts(h, mappedInds'[p]),
                        send |-> [q \in Procs |-> 0]]]
        /\ inds' = [p \in Procs |->
                      [recv |-> BucketInds(h, mappedInds'[p], 1,
                                    ScanOffs(sizes'[p].recv),
                                    [k \in 1..Len(mappedInds'[p]) |-> 0]),
                       send |-> <<>>]]
        \* lines 100-103
        /\ IF debugBuild /\ \E p \in Procs : PullFilled(p) # PullNumRecvInds(p)
           THEN /\ nerr' = "LogicError: mappedInds was filled incorrectly"
                /\ npc' = "Error"
           ELSE /\ nerr' = nerr
                /\ npc' = "PullExchangeInds"
    /\ UNCHANGED <<debugBuild, commSize, info, inverseMap, X, width, vals, unpacked,
                   nodal, Y>>
    /\ UNCHANGED outsideNodal

\* lines 124-134: the two all-to-all exchanges of counts and of indices
PullExchangeInds ==
    /\ npc = "PullExchangeInds"
    /\ LET recvSizes == [p \in Procs |-> sizes[p].recv]
           recvInds == [p \in Procs |-> inds[p].recv]
           sendSizes == AllToAllCounts(recvSizes)
           sendInds == AllToAll(recvInds, recvSizes, 1)
       IN  /\ sizes' = [p \in Procs |->
                          [recv |-> recvSizes[p], send |-> sendSizes[p]]]
           /\ inds' = [p \in Procs |->
                          [recv |-> recvInds[p], send |-> sendInds[p]]]
    /\ npc' = "PullFulfill"
    /\ UNCHANGED <<nerr, debugBuild, commSize, info, inverseMap, X, width, mappedInds,
                   vals, unpacked, nodal, Y>>
    /\ UNCHANGED outsideNodal

\* lines 136-157: the owners read the requested rows and reply
PullFulfill ==
    /\ npc = "PullFulfill"
    /\ LET h == Len(X) IN
        IF \A q \in Procs : LocalRowsOnly(h, q, inds[q].send)
        THEN LET sendVals == [q \in Procs |->
                                PullSendVals(h, q, inds[q].send)]
                 recvVals == AllToAll(sendVals,
                                      [q \in Procs |-> sizes[q].send], width)
             IN  /\ vals' = [p \in Procs |->
                               [send |-> sendVals[p], recv |-> recvVals[p]]]
                 /\ nerr' = nerr
                 /\ npc' = "PullUnpack"
        ELSE /\ vals' = vals
             /\ nerr' = "GetLocal out of range"
             /\ npc' = "Error"
    /\ UNCHANGED <<debugBuild, commSize, info, inverseMap, X, width, mappedInds, sizes,
                   inds, unpacked, nodal, Y>>
    /\ UNCHANGED outsideNodal

\* lines 159-194
PullUnpack ==
    /\ npc = "PullUnpack"
    /\ LET h == Len(X)
           nodes == [p \in Procs |->
                       PullNodes(p, UnpackRows(h, mappedInds[p], 1,
                           [q \in Procs |-> ScanOffs(sizes[p].recv)[q] * width],
                           vals[p].recv))]
       IN  /\ unpacked' = [p \in Procs |-> nodes[p].count]
           /\ nodal' = [p \in Procs |->
                          [localNodes |-> nodes[p].localNodes,
                           distNodes |-> nodes[p].distNodes]]
           \* lines 191-194
           /\ IF debugBuild /\ \E p \in Procs :
                                  unpacked'[p] # PullNumRecvInds(p)
              THEN /\ nerr' = "LogicError: Unpacked wrong number of indices"
                   /\ npc' = "Error"
              ELSE /\ nerr' = nerr
                   /\ npc' = "PushPack"
    /\ UNCHANGED <<debugBuild, commSize, info, inverseMap, X, width, mappedInds, sizes,
                   inds, vals, Y>>
    /\ UNCHANGED outsideNodal

\* DistNodalMultiVec<T>::LocalHeight, lines 321-332
LocalHeight(p) ==
    SumSeq([s \in 1..Len(nodal[p].localNodes) |-> Len(nodal[p].localNodes[s])])
    + SumSeq([s \in 1..Len(nodal[p].distNodes) |->
                Len(nodal[p].distNodes[s].rows)])

\* every process of a team starting from row 0 of the separator
PushDistTreeIndsFromZero(p) ==
    Flatten([s \in 1..(Len(info[p].distNodes) - 1) |->
        LET XNode == nodal[p].distNodes[s]
        IN  StridedInds(info[p].distNodes[s + 1].off, XNode.height,
                        0, XNode.colStride)])

\* lines 225-231: the tree indices of the rows held of distNodes[0..]
PushDistTreeInds(p) ==
    Flatten([s \in 1..(Len(info[p].distNodes) - 1) |->
        LET XNode == nodal[p].distNodes[s]
        IN  StridedInds(info[p].distNodes[s + 1].off, XNode.height,
                        XNode.colShift, XNode.colStride)])

\* lines 215-234
PushMappedInds(p) ==
    Translate(inverseMap, LocalTreeInds(p) \o PushDistTreeInds(p))

\* lines 248-272: the rows of the nodes in the order they are packed
NodalRows(p) ==
    Flatten(nodal[p].localNodes)
    \o Flatten([s \in 1..Len(nodal[p].distNodes) |->
                  nodal[p].distNodes[s].rows])

\* BucketRows with the values packed in traversal order, not by owner
PackedInTraversalOrder(h, mapped, rows, k, offs, arr) == rows

\* lines 248-272: sendVals[offs[q]*width+j] = row k, sendInds[offs[q]++] = i
RECURSIVE BucketRows(_, _, _, _, _, _)
BucketRows(h, mapped, rows, k, offs, arr) ==
    IF k > Len(mapped) THEN arr
    ELSE LET q == RowOwner(h, mapped[k]) IN
         BucketRows(h, mapped, rows, k + 1, [offs EXCEPT ![q] = @ + 1],
                    [arr EXCEPT ![offs[q] + 1] = rows[k]])

\* lines 306-313 on process q: X.SetLocal( recvInds[s]-firstLocalRow, j, ... )
RECURSIVE UnpackLocal(_, _, _, _, _, _)
UnpackLocal(h, q, recvInds, recvVals, k, flat) ==
    IF k > Len(recvInds) THEN flat
    ELSE LET iLocal == recvInds[k] - FirstLocalRow(h, q) IN
         UnpackLocal(h, q, recvInds, recvVals, k + 1,
            [flat EXCEPT ![FirstLocalRow(h, q) + iLocal + 1] =
                SubSeq(recvVals, (k - 1) * width + 1, k * width)])

RECURSIVE UnpackAll(_, _, _, _, _)
UnpackAll(h, q, recvInds, recvVals, flat) ==
    IF q = commSize THEN flat
    ELSE UnpackAll(h, q + 1, recvInds, recvVals,
            UnpackLocal(h, q, recvInds[q], recvVals[q], 1, flat))

\* a row of the resized X that no SetLocal has written
Unwritten == <<>>

\* lines 203-272: every process packs its rows and their indices by owner
PushPack ==
    /\ npc \in {"PushPack", "WidthUpdated"}
    /\ LET h == TreeHeight IN
        /\ mappedInds' = [p \in Procs |-> PushMappedInds(p)]
        /\ IF \A p \in Procs : Len(mappedInds'[p]) = LocalHeight(p)
           THEN /\ sizes' = [p \in Procs |->
                               [send |-> OwnerCounts(h, mappedInds'[p]),
                                recv |-> [q \in Procs |-> 0]]]
                /\ inds' = [p \in Procs |->
                              [send |-> BucketInds(h, mappedInds'[p], 1,
                                            ScanOffs(sizes'[p].send),
                                            [k \in 1..Len(mappedInds'[p]) |-> 0]),
                               recv |-> <<>>]]
                /\ vals' = [p \in Procs |->
                              [send |-> Flatten(BucketRows(h, mappedInds'[p],
                                            NodalRows(p), 1,
                                            ScanOffs(sizes'[p].send),
                                            [k \in 1..Len(mappedInds'[p]) |-> <<>>])),
                               recv |-> <<>>]]
                /\ nerr' = nerr
                /\ npc' = "PushExchange"
           ELSE \* mappedInds has numSendInds = LocalHeight() entries
                /\ UNCHANGED <<sizes, inds, vals>>
                /\ nerr' = "mappedInds out of range"
                /\ npc' = "Error"
    /\ UNCHANGED <<debugBuild, commSize, info, inverseMap, X, width, unpacked, nodal, Y>>
    /\ UNCHANGED outsideNodal

\* lines 274-304: the all-to-all exchanges of counts, indices and values
PushExchange ==
    /\ npc = "PushExchange"
    /\ LET h == TreeHeight
           sendSizes == [p \in Procs |-> sizes[p].send]
           recvSizes == AllToAllCounts(sendSizes)
           recvInds == AllToAll([p \in Procs |-> inds[p].send], sendSizes, 1)
           recvVals == AllToAll([p \in Procs |-> vals[p].send], sendSizes,
                                width)
       IN  /\ sizes' = [p \in Procs |->
                          [send |-> sendSizes[p], recv |-> recvSizes[p]]]
           \* lines 278-282
           /\ IF debugBuild /\ \E q \in Procs :
                                  ScanTotal(recvSizes[q]) # XLocalHeight(h, q)
              THEN /\ UNCHANGED <<inds, vals>>
                   /\ nerr' = "LogicError: numRecvInds was not equal to local height"
                   /\ npc' = "Error"
              ELSE /\ inds' = [p \in Procs |->
                                 [send |-> inds[p].send, recv |-> recvInds[p]]]
                   /\ vals' = [p \in Procs |->
                                 [send |-> vals[p].send, recv |-> recvVals[p]]]
                   /\ nerr' = nerr
                   /\ npc' = "PushUnpack"
    /\ UNCHANGED <<debugBuild, commSize, info, inverseMap, X, width, mappedInds, unpacked,
                   nodal, Y>>
    /\ UNCHANGED outsideNodal

\* lines 306-313, after the Resize of line 208
PushUnpack ==
    /\ npc = "PushUnpack"
    /\ LET h == TreeHeight IN
        IF \A q \in Procs : LocalRowsOnly(h, q, inds[q].recv)
        THEN /\ Y' = UnpackAll(h, 0, [q \in Procs |-> inds[q].recv],
                               [q \in Procs |-> vals[q].recv],
                               [i \in 1..h |-> Unwritten])
             /\ nerr' = nerr
             /\ npc' = "Done"
        ELSE /\ Y' = Y
             /\ nerr' = "SetLocal out of range"
             /\ npc' = "Error"
    /\ UNCHANGED <<debugBuild, commSize, info, inverseMap, X, width, mappedInds, sizes,
                   inds, vals, unpacked, nodal>>
    /\ UNCHANGED outsideNodal

\* ---- inputs ----
\* inverse maps: rotations of 0..n-1, the reversal, and a swap of two
\* neighbours followed by a rotation
InverseMaps(n) ==
    IF n = 0 THEN {<<>>}
    ELSE { [i \in 0..(n - 1) |-> (i + k) % n] : k \in 0..1 }
         \cup { [i \in 0..(n - 1) |-> n - 1 - i] }
         \cup { [i \in 0..(n - 1) |->
                   ((IF i = 0 THEN 1 ELSE IF i = 1 THEN 0 ELSE i) + 2) % n] }

\* separator sizes: empty, a single index, the largest
SeparatorSizes == {0, 1, MaxNodeSize}

\* flat vectors: every entry carries its own label, since neither Pull nor
\* Push inspects an entry's value
FlatVectors(n, w) ==
    { [i \in 1..n |-> [j \in 1..w |-> (i - 1) * w + j]] }

IPFIdle ==
    /\ pc = "idle" /\ err = "none" /\ ctrl = <<>>
    /\ QPre = <<>> /\ APre = <<>> /\ bPre = <<>> /\ cPre = <<>>
    /\ Q = <<>> /\ A = <<>> /\ b = <<>> /\ c = <<>>
    /\ dRow = <<>> /\ dCol = <<>> /\ x = <<>> /\ y = <<>> /\ z = <<>>
    /\ entry = <<>> /\ start = <<>> /\ alpha = <<>> /\ bNrm2 = <<>> /\ cNrm2 = <<>> /\ numIts = 0
    /\ conv = <<>> /\ rb = <<>> /\ rc = <<>>
    /\ dx = <<>> /\ dy = <<>> /\ dz = <<>> /\ phases = <<>>

InitNodal ==
    /\ npc = "PullRequest"
    /\ nerr = "none"
    /\ debugBuild = TRUE
    /\ commSize \in 1..MaxProcs
    /\ \E shapes \in [Procs -> LocalShapes],
          sepSizes \in [1..(commSize - 1) -> SeparatorSizes] :
          info = BuildTree(0, commSize, 0, shapes, sepSizes).procs
    /\ inverseMap \in InverseMaps(TreeHeight)
    /\ width \in 1..MaxWidth
    /\ X \in FlatVectors(TreeHeight, width)
    /\ mappedInds = <<>> /\ sizes = <<>> /\ inds = <<>> /\ vals = <<>>
    /\ unpacked = <<>> /\ nodal = <<>>
    /\ Y = <<>>
    /\ IPFIdle
    /\ SparseIdle
    /\ MSIdle
    /\ HNIdle

NextNodal ==
    \/ PullRequest
    \/ PullExchangeInds
    \/ PullFulfill
    \/ PullUnpack
    \/ PushPack
    \/ PushExchange
    \/ PushUnpack

SpecNodal == InitNodal /\ [][NextNodal]_vars

\* DistNodalMultiVec<T>::UpdateWidth, lines 344-349, called on every process
\* once Pull has filled the nodes: width_ = localNodes[0].Width().  Every
\* node was resized to width_ columns by Pull (lines 166, 181), so the
\* width read is width_ again.  On a process without a local supernode the
\* read is past the end of localNodes: whatever is read, the call is
\* followed no further.
UpdateWidth ==
    /\ npc = "PushPack"
    /\ IF \A p \in Procs : Len(nodal[p].localNodes) > 0
       THEN /\ width' = width
            /\ nerr' = nerr
            /\ npc' = "WidthUpdated"
       ELSE /\ width' \in 0..MaxWidth
            /\ nerr' = "localNodes[0] out of range"
            /\ npc' = "Error"
    /\ UNCHANGED <<debugBuild, commSize, info, inverseMap, X, mappedInds, sizes, inds,
                   vals, unpacked, nodal, Y>>
    /\ UNCHANGED outsideNodal

\* Pull, then UpdateWidth or not, then Push
NextOwner ==
    \/ PullRequest
    \/ PullExchangeInds
    \/ PullFulfill
    \/ PullUnpack
    \/ UpdateWidth
    \/ PushPack
    \/ PushExchange
    \/ PushUnpack

SpecOwner == InitNodal /\ [][NextOwner]_vars

(***************************************************************************)
(* Pull in both builds.  DistSymmInfo is built outside DistNodalMultiVec   *)
(* and Pull reads distNodes[s].localSize as it finds it: a tree is valid   *)
(* when every localSize is the size of the shard, and the trees below      *)
(* include ones whose root records one row more than the process owns.     *)
(***************************************************************************)
ValidTree ==
    \A p \in Procs : \A s \in 1..Len(info[p].distNodes) :
        LET nodeInfo == info[p].distNodes[s]
        IN  nodeInfo.localSize
               = Length(nodeInfo.size, nodeInfo.gridRank, nodeInfo.gridSize)

Overstated(tree, p) ==
    [tree EXCEPT ![p].distNodes[Len(tree[p].distNodes)].localSize = @ + 1]

InitBuilds ==
    /\ npc = "PullRequest"
    /\ nerr = "none"
    /\ debugBuild \in BOOLEAN
    /\ commSize \in 1..MaxProcs
    /\ \E shapes \in [Procs -> LocalShapes],
          sepSizes \in [1..(commSize - 1) -> SeparatorSizes] :
          \E tree \in {BuildTree(0, commSize, 0, shapes, sepSizes).procs} :
             info \in {tree} \cup {Overstated(tree, p) : p \in 1..(commSize - 1)}
    /\ ValidTree \/ TreeHeight >= 1
    /\ inverseMap = [i \in 0..(TreeHeight - 1) |-> TreeHeight - 1 - i]
    /\ width = 1
    /\ X \in FlatVectors(TreeHeight, width)
    /\ mappedInds = <<>> /\ sizes = <<>> /\ inds = <<>> /\ vals = <<>>
    /\ unpacked = <<>> /\ nodal = <<>>
    /\ Y = <<>>
    /\ IPFIdle
    /\ SparseIdle
    /\ MSIdle
    /\ HNIdle

NextPull ==
    \/ PullRequest
    \/ PullExchangeInds
    \/ PullFulfill
    \/ PullUnpack

SpecBuilds == InitBuilds /\ [][NextPull]_vars

(***************************************************************************)
(* The distributed sparse variant, one copy of the loop per process.  In   *)
(* this specification regCand[p] is the shard of regCand on process p (a   *)
(* DistMultiVec), increasedReg[p] and numLargeRefines[p] are the locals of *)
(* process p, and reports[p] lists what reg_qsd_ldl::SolveAfter returned   *)
(* to p, one entry per iteration p has been through.  SolveAfter is a      *)
(* collective over the communicator and is not part of this development:   *)
(* it is taken to return one value to all processes.                       *)
(***************************************************************************)
Ranks == DOMAIN regCand

\* rows of a DistMultiVec of height h on rank r of P: blocks of h \div P
\* rows, the last rank holding the rest
ShardRows(h, P, r) ==
    LET bs == h \div P
    IN  IF r < P - 1 THEN [k \in 1..bs |-> r * bs + k]
        ELSE [k \in 1..(h - (P - 1) * bs) |-> (P - 1) * bs + k]

\* lines 871-904: each process sets the rows of regCand it owns
InitialShard(system, m, n, P, r) ==
    LET cand == InitialRegCand(system, m, n)
        rows == ShardRows(Len(cand), P, r)
    IN  [k \in 1..Len(rows) |-> cand[rows[k]]]

SolveAfterPerProcess(r) == RefineCounts

\* what SolveAfter may return to process r in its next iteration: what it
\* returned to the processes that have been through that iteration, or any
\* count when r is the first
SolveAfter(r) ==
    LET its == Len(reports[r])
        ahead == {q \in Ranks : Len(reports[q]) > its}
    IN  IF ahead = {} THEN RefineCounts
        ELSE {reports[q][its + 1] : q \in ahead}

ProcInstances == {[system |-> s, m |-> 1, n |-> 2] :
                     s \in {"FULL_KKT", "AUGMENTED_KKT"}}

InitProcs ==
    /\ IPFIdle /\ NodalIdle /\ MSIdle /\ HNIdle
    /\ map = <<>> /\ invMap = <<>> /\ treeCalls = 0
    /\ \E P \in 1..MaxProcs, inst \in ProcInstances :
         /\ treeRead = inst
         /\ regCand = [r \in 0..(P - 1) |->
                         InitialShard(inst.system, inst.m, inst.n, P, r)]
         /\ increasedReg = [r \in 0..(P - 1) |-> FALSE]
         /\ numLargeRefines = [r \in 0..(P - 1) |-> 0]
         /\ reports = [r \in 0..(P - 1) |-> <<>>]

\* lines 1003-1011 and 1039-1047 on process r, in an iteration that gets to
\* the search direction
DistSearchDirection(r) ==
    /\ Len(reports[r]) <= MaxIts
    /\ \E count \in SolveAfter(r) :
         /\ numLargeRefines' = [numLargeRefines EXCEPT ![r] = count]
         /\ reports' = [reports EXCEPT ![r] = Append(@, count)]
         /\ IF ShouldIncrease(count, increasedReg[r])
            THEN /\ regCand' = [regCand EXCEPT ![r] = Scale(R(10), @)]
                 /\ increasedReg' = [increasedReg EXCEPT ![r] = TRUE]
            ELSE UNCHANGED <<regCand, increasedReg>>
    /\ UNCHANGED <<map, invMap, treeCalls, treeRead>>
    /\ UNCHANGED ipfVars
    /\ UNCHANGED outsideSparse

NextProcs == \E r \in Ranks : DistSearchDirection(r)

SpecProcs == InitProcs /\ [][NextProcs]_vars

(***************************************************************************)
(* Properties of Pull / Push (checked under SpecNodal)                     *)
(***************************************************************************)
\* row i (counted from 0) of the flat vector handed to Pull
XRow(i) == X[i + 1]

\* C1: Push applied to the result of Pull returns the flat vector Pull was
\* given: same height, and every row and column equal.
C1_RoundTrip ==
    /\ nerr = "none"
    /\ npc = "Done" =>
          /\ Len(Y) = Len(X)
          /\ \A i \in 1..Len(X) : \A j \in 1..width : Y[i][j] = X[i][j]

C1_Witness ==
    /\ npc = "Done"
    /\ commSize = MaxProcs
    /\ width > 1
    /\ \E i \in DOMAIN inverseMap : inverseMap[i] # i
    /\ \E p \in Procs : \E q \in Procs : p # q /\ sizes[p].send[q] > 0

\* C2: after Pull every nodal entry holds the flat-vector row selected by
\* the inverse map: row t of local supernode s is X(inverseMap(off_s + t), :),
\* and local row tLoc of distributed supernode s >= 1 is the row of
\* t = shift + tLoc * gridSize, every locally owned t being present.
C2_PullSelectsMappedRows ==
    npc \in {"PushPack", "PushExchange", "PushUnpack", "Done"} =>
        \A p \in Procs :
            /\ Len(nodal[p].localNodes) = Len(info[p].localNodes)
            /\ \A s \in 1..Len(info[p].localNodes) :
                 LET node == info[p].localNodes[s] IN
                 /\ Len(nodal[p].localNodes[s]) = node.size
                 /\ \A t \in 0..(node.size - 1) : \A j \in 1..width :
                        nodal[p].localNodes[s][t + 1][j]
                            = XRow(inverseMap[node.off + t])[j]
            /\ Len(nodal[p].distNodes) = Len(info[p].distNodes) - 1
            /\ \A s \in 1..(Len(info[p].distNodes) - 1) :
                 LET node == info[p].distNodes[s + 1]
                     owned == {t \in 0..(node.size - 1) :
                                 t % node.gridSize = node.gridRank}
                 IN
                 /\ Len(nodal[p].distNodes[s].rows) = Cardinality(owned)
                 /\ \A t \in owned : \A j \in 1..width :
                        nodal[p].distNodes[s].rows
                            [(t - node.gridRank) \div node.gridSize + 1][j]
                            = XRow(inverseMap[node.off + t])[j]

C2_Witness ==
    /\ npc = "PushPack"
    /\ commSize = MaxProcs
    /\ width > 1
    /\ \E i \in DOMAIN inverseMap : inverseMap[i] # i
    /\ \E p \in Procs :
          /\ \E s \in 1..Len(nodal[p].distNodes) :
                Len(nodal[p].distNodes[s].rows) > 0
          /\ Cardinality({q \in Procs : sizes[p].recv[q] > 0}) > 1

(***************************************************************************)
(* Properties of IPF (checked under SpecIPF)                               *)
(***************************************************************************)
AllPositive(v) == \A i \in 1..Len(v) : v[i][1] > 0

\* the three convergence measures of the last test all meet the tolerance
LastTestPassed ==
    /\ RLeq(conv.objConv, ctrl.tol)
    /\ RLeq(conv.rbConvSq, RMul(ctrl.tol, ctrl.tol))
    /\ RLeq(conv.rcConvSq, RMul(ctrl.tol, ctrl.tol))

\* number of the three measures of the last test that meet the tolerance
NumMeasuresMet ==
    Cardinality({k \in 1..3 :
        \/ k = 1 /\ RLeq(conv.objConv, ctrl.tol)
        \/ k = 2 /\ RLeq(conv.rbConvSq, RMul(ctrl.tol, ctrl.tol))
        \/ k = 3 /\ RLeq(conv.rcConvSq, RMul(ctrl.tol, ctrl.tol))})

LastPhase == IF phases = <<>> THEN "none" ELSE phases[Len(phases)]

\* C3: after every accepted step x += alpha dx, z += alpha dz, every entry
\* of x and of z is strictly positive.
C3_StepKeepsInterior ==
    numIts > 0 => AllPositive(x) /\ AllPositive(z)

C3_Witness ==
    /\ LastPhase = "TakeStep"
    /\ RLt(R(0), alpha)
    /\ \E i \in 1..Len(dx) : dx[i][1] < 0 /\ RLt(x[i], R(1))
    /\ numIts > 1

\* C4: IPF leaves its loop as converged only when the objective gap, the
\* primal residual and the dual residual of the iterate just evaluated all
\* meet the tolerance; when one of them does not, the loop goes on to the
\* iteration cap.
C4_ExitOnlyWhenAllThreeConverged ==
    /\ pc = "Unequilibrate" =>
          LET ms == Measures(x, y, z) IN
            /\ RLeq(ms.objConv, ctrl.tol)
            /\ RLeq(ms.rbConvSq, RMul(ctrl.tol, ctrl.tol))
            /\ RLeq(ms.rcConvSq, RMul(ctrl.tol, ctrl.tol))
    /\ pc = "IterationCap" =>
          LET ms == Measures(x, y, z) IN
            \/ ~RLeq(ms.objConv, ctrl.tol)
            \/ ~RLeq(ms.rbConvSq, RMul(ctrl.tol, ctrl.tol))
            \/ ~RLeq(ms.rcConvSq, RMul(ctrl.tol, ctrl.tol))

\* two of the three measures meet the tolerance and the loop goes on
C4_Witness ==
    /\ pc = "IterationCap"
    /\ NumMeasuresMet = 2

\* C5: IPF never takes more than ctrl.maxIts steps (a step is only computed
\* and applied while the iteration count is below maxIts), and a call that
\* returns has passed the convergence test.
C5_NoStepBeyondMaxIts ==
    /\ pc \in {"SearchDirection", "TakeStep"} => numIts < ctrl.maxIts
    /\ pc = "Done" => LastTestPassed

\* C6 as claimed: a call that ends with an error leaves the caller's
\* (x, y, z) without the progress of the intermediate steps, that is as they
\* were on entry or as Initialize set them.
C6_NoPartialProgressOnError ==
    pc = "Error" =>
        \/ x = entry.x /\ y = entry.y /\ z = entry.z
        \/ x = start.x /\ y = start.y /\ z = start.z

\* C6 amended: raising an error does not touch the caller's (x, y, z): they
\* keep the iterate of the steps applied so far (partial progress is
\* visible), and Unequilibrate is not run on them.
C6_ErrorLeavesLastIterate ==
    [][pc' = "Error" =>
         /\ x' = x /\ y' = y /\ z' = z
         /\ \A k \in 1..Len(phases') : phases'[k] # "Unequilibrate"]_vars

C6_Witness ==
    /\ pc = "Error"
    /\ numIts > 0
    /\ x # start.x
    /\ x # entry.x

\* C7: the caller-owned inputs Q, A, b, c are never changed by IPF.
C7_CallerInputsUnchanged ==
    [][QPre' = QPre /\ APre' = APre /\ bPre' = bPre /\ cPre' = cPre]_vars

C7_Witness ==
    /\ pc = "Done"
    /\ numIts > 0
    /\ Q = QPre /\ A = APre /\ b = bPre /\ c = cPre

\* C8: the cone check comes first in every iteration: a convergence test and
\* a step are only reached with every entry of x and z positive, each
\* convergence test directly follows a cone check, and a call never returns
\* with a nonpositive entry.
C8_ConeCheckFirst ==
    /\ pc \in {"ConvergenceTest", "IterationCap", "SearchDirection",
               "TakeStep", "Unequilibrate", "Done"} =>
          AllPositive(x) /\ AllPositive(z)
    /\ \A k \in 1..Len(phases) :
          phases[k] = "ConvergenceTest" => k > 1 /\ phases[k - 1] = "ConeCheck"

\* an iterate that meets all three convergence criteria ends in the error
C8_Witness ==
    /\ pc = "Error"
    /\ err = "LogicError: entries of x or z were nonpositive"
    /\ LET ms == Measures(x, y, z) IN
         /\ RLeq(ms.objConv, ctrl.tol)
         /\ RLeq(ms.rbConvSq, RMul(ctrl.tol, ctrl.tol))
         /\ RLeq(ms.rcConvSq, RMul(ctrl.tol, ctrl.tol))

\* C9: with ctrl.system neither FULL_KKT nor AUGMENTED_KKT every call ends
\* with the 'Invalid KKT system choice' LogicError, never in success or in
\* another error.
C9_InvalidSystemAlwaysLogicError ==
    (ctrl.system \notin {"FULL_KKT", "AUGMENTED_KKT"} /\ pc \in {"Done", "Error"})
        => (pc = "Error" /\ err = "LogicError: Invalid KKT system choice")

\* C10: the phases run in the order Equilibrate, Initialize, then rounds of
\* cone check, convergence test, cap check, direction and step, then
\* Unequilibrate: Unequilibrate runs at most once, directly after a
\* convergence test that passed and as the last phase, and never in a call
\* that ends in an error; a call is done exactly when Unequilibrate has run.
PhaseFollows(prev, next) ==
    \/ prev = "Equilibrate" /\ next = "Initialize"
    \/ prev = "Initialize" /\ next = "ConeCheck"
    \/ prev = "ConeCheck" /\ next = "ConvergenceTest"
    \/ prev = "ConvergenceTest" /\ next \in {"IterationCap", "Unequilibrate"}
    \/ prev = "IterationCap" /\ next = "SearchDirection"
    \/ prev = "SearchDirection" /\ next = "TakeStep"
    \/ prev = "TakeStep" /\ next = "ConeCheck"

C10_PhaseOrder ==
    /\ phases # <<>> => phases[1] = "Equilibrate"
    /\ \A k \in 2..Len(phases) : PhaseFollows(phases[k - 1], phases[k])
    /\ LastPhase = "Unequilibrate" => LastTestPassed
    /\ pc = "Done" <=> LastPhase = "Unequilibrate"
    /\ pc = "Unequilibrate" => LastPhase = "ConvergenceTest" /\ LastTestPassed
    /\ pc = "Error" => \A k \in 1..Len(phases) : phases[k] # "Unequilibrate"

C10_Witness ==
    /\ pc = "Done"
    /\ numIts > 0

(***************************************************************************)
(* triang_eig::MultiShiftDiagonalBlockSolve and triang_eig::MultiShiftSolve *)
(* (MultiShiftSolve.hpp), sequential Matrix variants.  Rows and columns    *)
(* count from 1 here: column col is column j = col - 1 of the code.  The   *)
(* DistMatrix variant of the diagonal block solve runs the same column     *)
(* loop over the columns each process owns.                                *)
(***************************************************************************)
\* lines 24-34: OverflowParameters, for a machine with smallNum = 1/8
smallNum == Rat(1, 8)
bigNum == RDiv(R(1), smallNum)
\* lines 67-68
oneHalf == RDiv(R(1), R(2))
oneQuarter == RDiv(R(1), R(4))

Min(p, q) == IF p < q THEN p ELSE q

RECURSIVE MaxNorm(_)
MaxNorm(v) ==
    IF v = <<>> THEN R(0) ELSE RMax(RAbs(Head(v)), MaxNorm(Tail(v)))

Column(M, col, h) == [i \in 1..h |-> M[i][col]]

GetDiagonal(M) == [i \in 1..Len(M) |-> M[i][i]]

\* a SetDiagonal that leaves the diagonal as it finds it
SetDiagonalKeepsCurrent(M, d) == M

SetDiagonal(M, d) ==
    [i \in 1..Len(M) |-> [k \in 1..Len(M[i]) |->
        IF i = k THEN d[i] ELSE M[i][k]]]

ShiftDiagonal(M, a) ==
    [i \in 1..Len(M) |-> [k \in 1..Len(M[i]) |->
        IF i = k THEN RAdd(M[i][k], a) ELSE M[i][k]]]

\* lines 76-86: infinity norms of the columns of U above the diagonal
ColumnNorms(M) ==
    [k \in 1..Len(M) |-> MaxNorm([i \in 1..(k - 1) |-> M[i][k]])]

\* a rescaling that divides by s where the code multiplies
RescaleDividing(st, s, guard) ==
    [st EXCEPT !.xj = Scale(RDiv(R(1), s), st.xj),
               !.xjMax = RDiv(st.xjMax, s),
               !.scale = RDiv(st.scale, s),
               !.guards = st.guards \cup {guard}]

\* xj *= s; xjMax *= s; scales_j *= s
Rescale(st, s, guard) ==
    [st EXCEPT !.xj = Scale(s, st.xj),
               !.xjMax = RMul(s, st.xjMax),
               !.scale = RMul(s, st.scale),
               !.guards = st.guards \cup {guard}]

\* lines 102-110
Prescale(st) ==
    IF RLeq(bigNum, st.xjMax)
    THEN Rescale(st, RDiv(RMul(oneHalf, bigNum), st.xjMax), "prescale")
    ELSE st

\* lines 119-135: the growth estimate invGi, rows i = xHeight down to 1
RECURSIVE Growth(_, _, _, _, _)
Growth(Us, cNorm, i, invGi, invMi) ==
    IF i < 1 THEN RMin(invGi, invMi)
    ELSE LET absUii == RAbs(Us[i][i]) IN
         IF \/ RLeq(invGi, smallNum)
            \/ RLeq(invMi, smallNum)
            \/ RLeq(absUii, smallNum)
         THEN RMin(R(0), invMi)
         ELSE Growth(Us, cNorm, i - 1,
                     IF i > 1
                     THEN RMul(invGi, RDiv(absUii, RAdd(absUii, cNorm[i])))
                     ELSE invGi,
                     RMin(invMi, RMul(absUii, invGi)))

\* blas::Trsv( 'U', 'N', 'N', ... ): back substitution with the leading
\* Len(v) rows and columns of Us
RECURSIVE TrsvFrom(_, _, _)
TrsvFrom(Us, i, v) ==
    IF i < 1 THEN v
    ELSE LET xi == RDiv(v[i], Us[i][i]) IN
         TrsvFrom(Us, i - 1,
            [k \in 1..Len(v) |->
                IF k = i THEN xi
                ELSE IF k < i THEN RSub(v[k], RMul(xi, Us[k][i]))
                ELSE v[k]])
Trsv(Us, v) == TrsvFrom(Us, Len(v), v)

\* lines 148-190: the guarded division at row i; Xij is the local copy of
\* the entry, written back by xjBuf[i] = Xij
SlowDivide(Us, st, i) ==
    LET Uii == Us[i][i]
        absUii == RAbs(Uii)
        Xij == st.xj[i]
        absXij == RAbs(Xij)
        guarded(s) == [st |-> Rescale(st, s, "division"),
                       Xij |-> RDiv(RMul(Xij, s), Uii)]
        plain == [st |-> st, Xij |-> RDiv(Xij, Uii)]
    IN  IF RLt(smallNum, absUii)
        THEN IF RLeq(absUii, R(1)) /\ RLeq(RMul(absUii, bigNum), absXij)
             THEN guarded(RDiv(oneHalf, absXij))
             ELSE plain
        ELSE IF RLt(R(0), absUii)
        THEN IF RLeq(RMul(absUii, bigNum), absXij)
             THEN guarded(RDiv(RMul(RMul(oneHalf, absUii), bigNum), absXij))
             ELSE plain
        ELSE IF RLeq(smallNum, absXij)
             THEN [st |-> [st EXCEPT !.xj = [k \in 1..Len(st.xj) |-> R(0)],
                                     !.xjMax = R(0),
                                     !.scale = R(0),
                                     !.guards = st.guards \cup {"zeroPivot"}],
                   Xij |-> R(1)]
             ELSE [st |-> [st EXCEPT !.guards = st.guards \cup {"zeroSmall"}],
                   Xij |-> Xij]

SlowUpdateSkipsAxpy(Us, cNorm, st, Xij0, i) == st

\* lines 192-223: the guarded update of the rows above row i (i > 1)
SlowUpdate(Us, cNorm, st, Xij0, i) ==
    LET absXij0 == RAbs(Xij0)
        cNorm_i == cNorm[i]
        large == /\ RLeq(R(1), absXij0)
                 /\ RLeq(RDiv(RSub(bigNum, st.xjMax), absXij0), cNorm_i)
        small == /\ ~large
                 /\ RLt(absXij0, R(1))
                 /\ RLeq(RSub(bigNum, st.xjMax), RMul(absXij0, cNorm_i))
        s == IF large THEN RDiv(oneQuarter, absXij0) ELSE oneQuarter
        st1 == IF large \/ small THEN Rescale(st, s, "update") ELSE st
        Xij == IF large \/ small THEN RMul(Xij0, s) ELSE Xij0
        xjMax1 == RAdd(st1.xjMax, RMul(RAbs(Xij), cNorm_i))
    IN  [st1 EXCEPT !.xjMax = xjMax1,
                    !.xj = [k \in 1..Len(st1.xj) |->
                              IF k < i
                              THEN RSub(st1.xj[k], RMul(Xij, Us[k][i]))
                              ELSE st1.xj[k]]]

\* lines 145-224: the backward substitution, rows i = xHeight down to 1
RECURSIVE SlowFrom(_, _, _, _)
SlowFrom(Us, cNorm, st, i) ==
    IF i < 1 THEN st
    ELSE LET d == SlowDivide(Us, st, i)
             st1 == [d.st EXCEPT !.xj[i] = d.Xij]
             st2 == IF i > 1 THEN SlowUpdate(Us, cNorm, st1, d.Xij, i)
                    ELSE st1
         IN  SlowFrom(Us, cNorm, st2, i - 1)

SlowPath(Us, cNorm, st) ==
    [SlowFrom(Us, cNorm, st, Len(st.xj)) EXCEPT !.path = "slow"]

\* line 140
FastPath(Us, st) == [st EXCEPT !.xj = Trsv(Us, st.xj), !.path = "fast"]

\* line 98, 103: the column as the loop body starts on it
ColumnStart(bcol) ==
    [xj |-> bcol, xjMax |-> MaxNorm(bcol), scale |-> R(1), guards |-> {},
     path |-> "none"]

\* line 137
GrowthIsSafe(Us, cNorm, st) ==
    LET invGi == RDiv(R(1), st.xjMax)
    IN  RLt(smallNum, Growth(Us, cNorm, Len(st.xj), invGi, invGi))

\* lines 91-227: one column; a skipped column keeps the scale 1 that
\* Ones( scales, numShifts, 1 ) gave it
SolveColumn(Us, cNorm, bcol) ==
    LET st == Prescale(ColumnStart(bcol)) IN
    IF RLeq(st.xjMax, smallNum)
    THEN [st EXCEPT !.path = "skipped", !.scale = R(1)]
    ELSE IF GrowthIsSafe(Us, cNorm, st) THEN FastPath(Us, st)
    ELSE SlowPath(Us, cNorm, st)

\* lines 59-231: the diagonal block solve on (M, sh, Xm); column 1 (j = 0)
\* is not visited
MultiShiftDiagonalBlockSolve(M, sh, Xm) ==
    LET n == Len(M)
        numShifts == Len(sh)
        diag == GetDiagonal(M)
        Us(col) == ShiftDiagonal(SetDiagonal(M, diag), RNeg(sh[col]))
        xHeight(col) == Min(n, col - 1)
        Return(res) ==
            [X |-> [i \in 1..n |-> [col \in 1..numShifts |->
                      IF col > 1 /\ i <= xHeight(col) THEN res[col].xj[i]
                      ELSE Xm[i][col]]],
             scales |-> [col \in 1..numShifts |->
                           IF res[col].path \in {"none", "skipped"}
                           THEN Ones(numShifts)[col] ELSE res[col].scale],
             U |-> SetDiagonal(IF numShifts > 1 THEN Us(numShifts) ELSE M,
                               diag),
             cols |-> [col \in 1..numShifts |->
                         [path |-> res[col].path,
                          guards |-> res[col].guards]]]
        Solve(cNorm) ==
            Return([col \in 1..numShifts |->
                      IF col = 1
                      THEN [ColumnStart(<<>>) EXCEPT !.path = "none"]
                      ELSE SolveColumn(Us(col), cNorm,
                                       Column(Xm, col, xHeight(col)))])
    IN  Solve(ColumnNorms(M))

\* ---- inputs ----
MaxHeight == 2
MaxShifts == 3

\* upper triangular matrices: (first diagonal entry, step down the diagonal,
\* entries above the diagonal)
UShapes == { <<R(1), R(0), R(1)>>, <<R(1), R(1), R(6)>> }
UMatrices(m) ==
    { [i \in 1..m |-> [k \in 1..m |->
         IF i = k THEN RAdd(sh[1], RMul(R(i - 1), sh[2]))
         ELSE IF i < k THEN sh[3] ELSE R(0)]] : sh \in UShapes }

\* a column of the input: its shift, its first entry, its other entries
ColumnCases ==
    << <<R(0), R(1), R(1)>>,            \* nothing to guard
       <<R(1), R(1), R(1)>>,            \* a zero pivot
       <<Rat(1, 2), R(6), R(6)>>,       \* a small pivot under a large entry
       <<R(0), R(8), R(8)>>,            \* entries as large as bigNum
       <<R(1), smallNum, smallNum>>,    \* a zero pivot, entries of smallNum
       <<R(0), Rat(1, 16), Rat(1, 16)>>,\* entries below smallNum
       <<R(2), R(1), Rat(1, 16)>>,      \* a zero pivot under a tiny entry
       <<Rat(15, 16), Rat(1, 4), Rat(1, 4)>> >>  \* a pivot below smallNum

\* the columns take consecutive cases, starting from any of them
CaseOf(first, col) == ColumnCases[((first + col - 2) % Len(ColumnCases)) + 1]

\* ---- the calls ----
InitMS ==
    /\ mpc = "start"
    /\ merr = "none"
    /\ \E m \in 1..MaxHeight, numShifts \in 1..MaxShifts :
       \E first \in 1..Len(ColumnCases) :
          /\ U \in UMatrices(m)
          /\ shifts = [col \in 1..numShifts |-> CaseOf(first, col)[1]]
          /\ B = [i \in 1..m |-> [col \in 1..numShifts |->
                    IF i = 1 THEN CaseOf(first, col)[2]
                    ELSE CaseOf(first, col)[3]]]
    /\ XS = B
    /\ scales = <<>>
    /\ cols = <<>>
    /\ bsize = 0 /\ kPanel = 0 /\ XMax = <<>>
    /\ grid = <<1, 1>>
    /\ IPFIdle /\ NodalIdle /\ SparseIdle /\ HNIdle

\* MultiShiftDiagonalBlockSolve( U, shifts, X, scales ), lines 43-232
DiagonalBlockSolve ==
    /\ mpc = "start"
    /\ \E r \in {MultiShiftDiagonalBlockSolve(U, shifts, XS)} :
          /\ XS' = r.X
          /\ scales' = r.scales
          /\ U' = r.U
          /\ cols' = r.cols
    /\ mpc' = "BlockDone"
    /\ UNCHANGED <<merr, shifts, B, bsize, kPanel, XMax, grid>>
    /\ UNCHANGED outsideMS

\* Blocksize() is a setting of the library; LastOffset( m, bsize ) is the
\* offset of the last panel of m rows
MaxBlock == 2
LastOffset(m, bs) == bs * ((m - 1) \div bs)

\* lines 483-496: column col (j = col - 1) holds j entries; the largest is
\* brought below bigNum
PrescaleColumn(Xm, col) == Prescale(ColumnStart(Column(Xm, col, col - 1)))

\* MultiShiftSolve( U, shifts, X, scales ), lines 462-496.  Column j asks
\* for the rows 0..j-1 of X: with more than m + 1 columns the view of line
\* 485 leaves the matrix, and the call is followed no further.
MSPrescale ==
    /\ mpc = "start"
    /\ LET m == Len(XS)
           n == Len(shifts)
           last == Min(n, m + 1)
       IN  \E st \in {[col \in 1..last |-> PrescaleColumn(XS, col)]} :
           /\ \E bs \in 1..MaxBlock :
                /\ bsize' = bs
                /\ kPanel' = LastOffset(m, bs)
           /\ XS' = [i \in 1..m |-> [col \in 1..n |->
                        IF col <= last /\ i < col THEN st[col].xj[i]
                        ELSE XS[i][col]]]
           /\ scales' = [col \in 1..n |->
                           IF col <= last
                           THEN RMul(st[col].scale, Ones(n)[col])
                           ELSE Ones(n)[col]]
           /\ XMax' = [col \in 1..last |->
                         RMax(st[col].xjMax, RMul(R(2), smallNum))]
           /\ cols' = [col \in 1..n |->
                         [path |-> "none",
                          guards |-> IF col <= last THEN st[col].guards
                                     ELSE {}]]
           /\ IF n > m + 1
              THEN mpc' = "MSError" /\ merr' = "OutOfRange"
              ELSE mpc' = "Panel" /\ merr' = merr
    /\ UNCHANGED <<U, shifts, B, grid>>
    /\ UNCHANGED outsideMS

\* lines 522-535: the scales the diagonal block solve returned are applied
\* to the rows above and below the panel.  The rows below are asked for as
\* X( IR(k+nb,j), IR(j) ), which for a column j < k+nb of the panel itself
\* ends before it begins: the view is then empty (lenient) or refused
SigmaScaling(Xm, sc, xmax, sigma, k, nb, lenient) ==
    LET n == Len(sc)
        Scaled(col) == col > k /\ RLt(sigma[col - k], R(1))
        bad == {col \in (k + 1)..n : Scaled(col) /\ col - 1 < k + nb}
        Apply(stop, f) ==
            [X |-> [i \in 1..Len(Xm) |-> [col \in 1..n |->
                      IF col < stop /\ (i <= k \/ (i > k + nb /\ i < col))
                      THEN RMul(f[col], Xm[i][col]) ELSE Xm[i][col]]],
             scales |-> [col \in 1..n |-> RMul(f[col], sc[col])],
             XMax |-> [col \in 1..n |->
                         IF col < stop THEN RMul(f[col], xmax[col])
                         ELSE xmax[col]],
             sigma |-> {col \in 1..n : f[col] # R(1)},
             err |-> stop <= n]
        Upto(stop) ==
            Apply(stop, [col \in 1..n |->
                           IF Scaled(col) /\ col <= stop
                           THEN sigma[col - k] ELSE R(1)])
    IN  Upto(IF lenient \/ bad = {} THEN n + 1
             ELSE CHOOSE col \in bad : \A o \in bad : col <= o)

\* lines 542-546
PanelNorm(Um, k, nb) ==
    LET colMax == [cb \in 1..nb |->
                     MaxNorm([i \in 1..k |-> Um[i][k + cb]])]
    IN  RDiv(RSum(colMax), R(nb))

\* lines 554-574: the factor the GEMM guard gives column col
GemmFactor(Xm, xmax, cNorm, col, k, nb) ==
    LET xjMax == xmax[col]
        X1Max == MaxNorm([i \in 1..nb |-> Xm[k + i][col]])
    IN  IF /\ RLeq(R(1), X1Max)
           /\ RLeq(RDiv(RDiv(RSub(bigNum, xjMax), X1Max), R(nb)), cNorm)
        THEN RDiv(oneHalf, RMul(X1Max, R(nb)))
        ELSE IF /\ RLt(X1Max, R(1))
                /\ RLeq(RDiv(RSub(bigNum, xjMax), R(nb)), RMul(cNorm, X1Max))
        THEN RDiv(oneHalf, R(nb))
        ELSE R(1)

\* lines 550-577
GemmGuard(Xm, sc, xmax, Um, k, nb) ==
    LET n == Len(sc)
        X1Max(col) == MaxNorm([i \in 1..nb |-> Xm[k + i][col]])
        Apply(cNorm, s) ==
            [X |-> [i \in 1..Len(Xm) |-> [col \in 1..n |->
                      IF i < col THEN RMul(s[col], Xm[i][col])
                      ELSE Xm[i][col]]],
             scales |-> [col \in 1..n |-> RMul(s[col], sc[col])],
             XMax |-> [col \in 1..n |->
                         IF col > k
                         THEN RAdd(RMul(s[col], xmax[col]),
                                   RMul(RMul(R(nb), cNorm),
                                        RMul(s[col], X1Max(col))))
                         ELSE xmax[col]],
             gemm |-> {col \in (k + 1)..n : s[col] # R(1)}]
        Guard(cNorm) ==
            Apply(cNorm, [col \in 1..n |->
                            IF col > k
                            THEN GemmFactor(Xm, xmax, cNorm, col, k, nb)
                            ELSE R(1)])
    IN  Guard(PanelNorm(Um, k, nb))

\* line 580: Gemm( NORMAL, NORMAL, F(-1), U01, X1, F(1), X0 )
GemmUpdate(Xm, Um, k, nb) ==
    [i \in 1..Len(Xm) |-> [col \in 1..Len(Xm[i]) |->
        IF i <= k /\ col > k
        THEN RSub(Xm[i][col],
                  RSum([cb \in 1..nb |-> RMul(Um[i][k + cb], Xm[k + cb][col])]))
        ELSE Xm[i][col]]]

\* lines 499-582: the body of the panel loop at offset k
PanelStep(Um, sh, Xm, sc, xmax, k, bs, lenient) ==
    LET m == Len(Xm)
        n == Len(sh)
        nb == Min(bs, m - k)
        nActive == n - k
        InPanel(i) == i > k /\ i <= k + nb
        Return(r, sg, gg) ==
            [X |-> IF k > 0 /\ ~sg.err THEN GemmUpdate(gg.X, Um, k, nb)
                   ELSE gg.X,
             scales |-> gg.scales,
             XMax |-> gg.XMax,
             U |-> [i \in 1..m |-> [cb \in 1..m |->
                      IF InPanel(i) /\ InPanel(cb) THEN r.U[i - k][cb - k]
                      ELSE Um[i][cb]]],
             err |-> sg.err,
             guards |-> [col \in 1..n |->
                           (IF col > k THEN r.cols[col - k].guards ELSE {})
                           \cup (IF col \in sg.sigma THEN {"sigma"} ELSE {})
                           \cup (IF col \in gg.gemm THEN {"gemm"} ELSE {})],
             paths |-> [col \in 1..n |->
                          IF col > k THEN r.cols[col - k].path ELSE "none"]]
        Guarded(r, sg) ==
            Return(r, sg,
                   IF k > 0 /\ ~sg.err
                   THEN GemmGuard(sg.X, sg.scales, sg.XMax, Um, k, nb)
                   ELSE [X |-> sg.X, scales |-> sg.scales, XMax |-> sg.XMax,
                         gemm |-> {}])
        Scaled(r) ==
            Guarded(r, SigmaScaling(
                          [i \in 1..m |-> [col \in 1..n |->
                              IF InPanel(i) /\ col > k
                              THEN r.X[i - k][col - k] ELSE Xm[i][col]]],
                          sc, xmax, r.scales, k, nb, lenient))
    IN  Scaled(MultiShiftDiagonalBlockSolve(
                   [i \in 1..nb |-> [cb \in 1..nb |-> Um[k + i][k + cb]]],
                   [cb \in 1..nActive |-> sh[k + cb]],
                   [i \in 1..nb |-> [cb \in 1..nActive |-> Xm[k + i][k + cb]]]))

\* one pass of the panel loop, lines 499-582; the views of line 511 start at
\* column k, which a matrix of fewer than k columns does not have
MSPanel ==
    /\ mpc = "Panel"
    /\ IF kPanel > Len(shifts)
       THEN /\ mpc' = "MSError" /\ merr' = "OutOfRange"
            /\ UNCHANGED <<U, XS, scales, cols, kPanel, XMax>>
       ELSE \E lenient \in BOOLEAN :
              \E p \in {PanelStep(U, shifts, XS, scales, XMax, kPanel, bsize,
                                  lenient)} :
                  /\ XS' = p.X
                  /\ scales' = p.scales
                  /\ XMax' = p.XMax
                  /\ U' = p.U
                  /\ cols' = [col \in 1..Len(shifts) |->
                                [path |-> IF p.paths[col] # "none"
                                          THEN p.paths[col]
                                          ELSE cols[col].path,
                                 guards |-> cols[col].guards
                                            \cup p.guards[col]]]
                  /\ IF p.err
                     THEN mpc' = "MSError" /\ merr' = "LogicError"
                          /\ kPanel' = kPanel
                     ELSE IF kPanel - bsize >= 0
                     THEN mpc' = "Panel" /\ merr' = merr
                          /\ kPanel' = kPanel - bsize
                     ELSE mpc' = "MSDone" /\ merr' = merr
                          /\ kPanel' = kPanel
    /\ UNCHANGED <<shifts, B, bsize, grid>>
    /\ UNCHANGED outsideMS

\* ---- the ranges of rows the call takes from X, as <<begin, end, extent>>,
\* with j and k counted from 0 as in the code ----

\* lines 483-485: auto xj = X( IR(0,j), IR(j) ) for every column j
PrescaleRanges(Xm, sh) ==
    { <<0, j, Len(Xm)>> : j \in 0..(Len(sh) - 1) }

\* lines 503-515: ind0, ind1, ind2 over the rows of U and X, and IR(k,END)
\* over the columns of X and the rows of shifts
PanelRanges(Xm, sh, k, bs) ==
    { <<0, k, Len(Xm)>>,
      <<k, k + Min(bs, Len(Xm) - k), Len(Xm)>>,
      <<k + Min(bs, Len(Xm) - k), Len(Xm), Len(Xm)>>,
      <<k, Len(sh), Len(sh)>> }

\* lines 522-531: x0j = X( IR(0,k), IR(j) ) and x2j = X( IR(k+nb,j), IR(j) )
\* for every column j of the panel whose sigma is below 1
SigmaRanges(Um, sh, Xm, k, bs) ==
    LET m == Len(Xm)
        nb == Min(bs, m - k)
        Taken(sigma) ==
            UNION { { <<0, k, m>>, <<k + nb, j, m>> } :
                    j \in { jj \in k..(Len(sh) - 1) :
                              RLt(sigma[jj - k + 1], R(1)) } }
    IN  Taken(MultiShiftDiagonalBlockSolve(
                 [i \in 1..nb |-> [cb \in 1..nb |-> Um[k + i][k + cb]]],
                 [cb \in 1..(Len(sh) - k) |-> sh[k + cb]],
                 [i \in 1..nb |-> [cb \in 1..(Len(sh) - k) |->
                                     Xm[k + i][k + cb]]]).scales)

\* lines 552-556: auto xj = X( IR(0,j), IR(j) ) for every column j >= k of a
\* panel with k > 0
GemmRanges(Xm, sh, k) ==
    IF k > 0 THEN { <<0, j, Len(Xm)>> : j \in k..(Len(sh) - 1) } ELSE {}

NextMS ==
    \/ DiagonalBlockSolve
    \/ MSPrescale
    \/ MSPanel

SpecMS == InitMS /\ [][NextMS]_vars

(***************************************************************************)
(* The distributed MultiShiftSolve, lines 585-705.  X is [MC,MR] on a grid *)
(* of grid[1] by grid[2] processes: column j of X (from 0) is on process   *)
(* column j mod grid[2].  The views X0, X1, X2 start at column k, and the  *)
(* scales of the panel, scalesUpdate[MR,* ], are aligned with X1: local    *)
(* entry jLoc of process column q is the scale of X1's local column jLoc.  *)
(***************************************************************************)
MaxGrid == 2
MaxDistShifts == 4

\* X1.LocalWidth() on process column q, for the view of nActive columns that
\* starts at column k
LocalWidth(q, k, nActive, gw) ==
    Cardinality({a \in 0..(nActive - 1) : (a + k) % gw = q})

\* the column of the view (from 0) that local column jLoc of process
\* column q is
GlobalCol(q, jLoc, k, gw) == ((q + gw - (k % gw)) % gw) + jLoc * gw

\* IsLocal( i, 0 ) of scalesUpdate[MR,* ] on process column q
IsLocalRow(q, i, k, gw) == (i + k) % gw = q

\* line 686: scalesUpdate_MR_STAR.Set( jActiveLoc, 0, F(1) ) addresses row
\* jActiveLoc of the whole vector and writes it where that row is local; the
\* rows (from 0) the loop of lines 668-688 sets to one
ForcedToOne(sigma, k, gw) ==
    {jLoc \in 0..(Len(sigma) - 1) :
        \E q \in 0..(gw - 1) :
            /\ jLoc < LocalWidth(q, k, Len(sigma), gw)
            /\ ~RLt(sigma[GlobalCol(q, jLoc, k, gw) + 1], R(1))
            /\ IsLocalRow(q, jLoc, k, gw)}

\* lines 665-688: scalesUpdate[MR,* ] as DiagonalScale receives it
ScalesUpdate(sigma, k, gw) ==
    [a \in 1..Len(sigma) |->
        IF (a - 1) \in ForcedToOne(sigma, k, gw) THEN R(1) ELSE sigma[a]]

\* lines 672-679: each process scales the rows of X0 and X2 it owns, in each
\* of its local columns whose sigma is below one
DistScal(Xm, sigma, k, nb) ==
    [i \in 1..Len(Xm) |-> [col \in 1..Len(Xm[i]) |->
        IF col > k /\ (i <= k \/ i > k + nb) /\ RLt(sigma[col - k], R(1))
        THEN RMul(sigma[col - k], Xm[i][col]) ELSE Xm[i][col]]]

\* lines 689-690: DiagonalScale( LEFT, NORMAL, scalesUpdate, scalesActive )
DistScales(sc, upd, k) ==
    [col \in 1..Len(sc) |->
        IF col > k THEN RMul(upd[col - k], sc[col]) ELSE sc[col]]

\* lines 633-704: the body of the panel loop at offset k
DistPanelStep(Um, sh, Xm, sc, k, bs, gw) ==
    LET m == Len(Xm)
        n == Len(sh)
        nb == Min(bs, m - k)
        nActive == n - k
        InPanel(i) == i > k /\ i <= k + nb
        Return(r, Xs) ==
            [X |-> IF k > 0 THEN GemmUpdate(Xs, Um, k, nb) ELSE Xs,
             scales |-> DistScales(sc, ScalesUpdate(r.scales, k, gw), k),
             U |-> [i \in 1..m |-> [cb \in 1..m |->
                      IF InPanel(i) /\ InPanel(cb) THEN r.U[i - k][cb - k]
                      ELSE Um[i][cb]]],
             guards |-> [col \in 1..n |->
                           (IF col > k THEN r.cols[col - k].guards ELSE {})
                           \cup (IF col > k /\ RLt(r.scales[col - k], R(1))
                                 THEN {"sigma"} ELSE {})],
             paths |-> [col \in 1..n |->
                          IF col > k THEN r.cols[col - k].path ELSE "none"]]
        Scaled(r) ==
            Return(r, DistScal([i \in 1..m |-> [col \in 1..n |->
                                   IF InPanel(i) /\ col > k
                                   THEN r.X[i - k][col - k] ELSE Xm[i][col]]],
                               r.scales, k, nb))
    IN  Scaled(MultiShiftDiagonalBlockSolve(
                   [i \in 1..nb |-> [cb \in 1..nb |-> Um[k + i][k + cb]]],
                   [cb \in 1..nActive |-> sh[k + cb]],
                   [i \in 1..nb |-> [cb \in 1..nActive |-> Xm[k + i][k + cb]]]))

InitDist ==
    /\ mpc = "start"
    /\ merr = "none"
    /\ \E m \in 1..MaxHeight, numShifts \in 1..MaxDistShifts :
       \E first \in 1..Len(ColumnCases) :
          /\ U \in UMatrices(m)
          /\ shifts = [col \in 1..numShifts |-> CaseOf(first, col)[1]]
          /\ B = [i \in 1..m |-> [col \in 1..numShifts |->
                    IF i = 1 THEN CaseOf(first, col)[2]
                    ELSE CaseOf(first, col)[3]]]
    /\ XS = B
    /\ scales = <<>>
    /\ cols = <<>>
    /\ bsize = 0 /\ kPanel = 0 /\ XMax = <<>>
    /\ grid \in (1..MaxGrid) \X (1..MaxGrid)
    /\ IPFIdle /\ NodalIdle /\ SparseIdle /\ HNIdle

\* MultiShiftSolve( UPre, shiftsPre, XPre, scalesPre ), lines 605-631
DistMSStart ==
    /\ mpc = "start"
    /\ \E bs \in 1..MaxBlock :
         /\ bsize' = bs
         /\ kPanel' = LastOffset(Len(XS), bs)
    /\ scales' = Ones(Len(shifts))
    /\ cols' = [col \in 1..Len(shifts) |-> [path |-> "none", guards |-> {}]]
    /\ mpc' = "DistPanel"
    /\ UNCHANGED <<merr, U, shifts, B, XS, XMax, grid>>
    /\ UNCHANGED outsideMS

\* one pass of the panel loop, lines 633-704; the views of lines 644-648
\* start at column k, which a matrix of fewer than k columns does not have
DistMSPanel ==
    /\ mpc = "DistPanel"
    /\ IF kPanel > Len(shifts)
       THEN /\ mpc' = "MSError" /\ merr' = "OutOfRange"
            /\ UNCHANGED <<U, XS, scales, cols, kPanel>>
       ELSE \E p \in {DistPanelStep(U, shifts, XS, scales, kPanel, bsize,
                                    grid[2])} :
               /\ XS' = p.X
               /\ scales' = p.scales
               /\ U' = p.U
               /\ cols' = [col \in 1..Len(shifts) |->
                             [path |-> IF p.paths[col] # "none"
                                       THEN p.paths[col]
                                       ELSE cols[col].path,
                              guards |-> cols[col].guards
                                         \cup p.guards[col]]]
               /\ merr' = merr
               /\ IF kPanel - bsize >= 0
                  THEN mpc' = "DistPanel" /\ kPanel' = kPanel - bsize
                  ELSE mpc' = "DistDone" /\ kPanel' = kPanel
    /\ UNCHANGED <<shifts, B, bsize, XMax, grid>>
    /\ UNCHANGED outsideMS

NextDist ==
    \/ DistMSStart
    \/ DistMSPanel

SpecDist == InitDist /\ [][NextDist]_vars

(***************************************************************************)
(* HatanoNelson( A, n, center, radius, g, periodic ),                      *)
(* src/src/matrices/HatanoNelson.cpp, for a Matrix (lines 15-35) and for   *)
(* an AbstractDistMatrix (lines 37-59).  An entry r * exp(p) of A is the   *)
(* pair <<p, r>> of the exponent p and the rational r.                     *)
(***************************************************************************)
Num(r) == <<0, r>>
Exp(p) == <<p, R(1)>>

\* Zeros( A, n, n )
Zeros(h, w) == [i \in 1..h |-> [k \in 1..w |-> Num(R(0))]]

\* Uniform( d, n, 1, center, radius ): n samples of the ball of the given
\* radius around center
Uniform(h, center, radius) ==
    [1..h -> {Num(RSub(center, radius)), Num(center),
              Num(RAdd(center, radius))}]

\* a FillDiagonal that fills the main diagonal whatever the offset
FillDiagonalOnMain(M, a, offset) ==
    [i \in 1..Len(M) |-> [k \in 1..Len(M[i]) |->
        IF k = i THEN a ELSE M[i][k]]]

\* FillDiagonal( A, alpha, offset ): the entries (i, i + offset)
FillDiagonal(M, a, offset) ==
    [i \in 1..Len(M) |-> [k \in 1..Len(M[i]) |->
        IF k - i = offset THEN a ELSE M[i][k]]]

\* A.Set( i, j, alpha ), with i and j counted from 0
Set(M, i, j, a) == [M EXCEPT ![i + 1][j + 1] = a]

\* lines 22-34 and 46-58: the matrix the call builds from the diagonal d
HatanoNelsonMatrix(d, n, g, periodic) ==
    LET Corner(M, i, j, a) == IF periodic THEN Set(M, i, j, a) ELSE M
        Upper(M) == Corner(FillDiagonal(M, Exp(g), 1), n - 1, 0, Exp(g))
        Lower(M) == Corner(FillDiagonal(M, Exp(-g), -1), 0, n - 1, Exp(-g))
    IN  Lower(Upper(SetDiagonal(Zeros(n, n), d)))

\* ---- inputs ----
MaxN == 4
\* what A holds when the call is made
PreviousA == { <<>>, <<<<Num(R(6))>>>> }

InitHN ==
    /\ hpc = "start"
    /\ herr = "none"
    /\ hn \in [overload : {"Matrix", "AbstractDistMatrix"},
               n : (-1)..MaxN,
               center : {R(0)},
               radius : {R(0), R(1)},
               g : {-1, 0, 1},
               periodic : BOOLEAN]
    /\ HNA \in PreviousA
    /\ IPFIdle /\ NodalIdle /\ SparseIdle /\ MSIdle

\* lines 19-34, and 43-58 for the distributed matrix, whose entries are
\* written through the same global Zeros, SetDiagonal, FillDiagonal and Set
HatanoNelsonCall ==
    /\ hpc = "start"
    /\ IF hn.n < 3
       THEN /\ hpc' = "Error"
            /\ herr' = "LogicError"
            /\ HNA' = HNA
       ELSE /\ \E d \in Uniform(hn.n, hn.center, hn.radius) :
                 HNA' = HatanoNelsonMatrix(d, hn.n, hn.g, hn.periodic)
            /\ hpc' = "Done"
            /\ herr' = herr
    /\ UNCHANGED hn
    /\ UNCHANGED outsideHN

\* HatanoNelson( Matrix<F>& A, ... ), lines 15-35
HatanoNelson == hn.overload = "Matrix" /\ HatanoNelsonCall

\* HatanoNelson( AbstractDistMatrix<F>& A, ... ), lines 37-59
HatanoNelsonDist == hn.overload = "AbstractDistMatrix" /\ HatanoNelsonCall

NextHN ==
    \/ HatanoNelson
    \/ HatanoNelsonDist

SpecHN == InitHN /\ [][NextHN]_vars

(***************************************************************************)
(* Properties of the sparse variant (checked under SpecSparse)             *)
(***************************************************************************)
\* regCand as the setup before the loop leaves it
RegCandAtSetup == InitialRegCand(ctrl.system, Len(APre), Len(APre[1]))

SetupDone == pc \notin {"idle", "Equilibrate", "Initialize"}

\* C11: within one sparse solve call regCand keeps its initial value until
\* the first iteration whose solve reports more than 3 large refinements, is
\* exactly 10 times its initial value from that iteration on (a later report
\* above 3 does not scale it again, reports of 3 or fewer never change it);
\* so the magnitude of every entry never decreases and no sign changes.
C11_RegCandEscalatesOnce ==
    SetupDone =>
        /\ regCand = IF \E i \in 1..Len(reports) : reports[i] > 3
                     THEN Scale(R(10), RegCandAtSetup)
                     ELSE RegCandAtSetup
        /\ \A i \in 1..Len(regCand) :
              /\ RLeq(RAbs(RegCandAtSetup[i]), RAbs(regCand[i]))
              /\ (regCand[i][1] > 0) = (RegCandAtSetup[i][1] > 0)

\* two iterations have reported more than 3 large refinements
C11_Witness ==
    /\ Len(regCand) > 0
    /\ \E i, j \in 1..Len(reports) : i < j /\ reports[i] > 3 /\ reports[j] > 3

\* C12: the elimination tree is computed once per solve call: by Initialize
\* for AUGMENTED_KKT unless both iterates are given, else at iteration 0; it
\* is set when the Pulls of an iteration read it, and every round of Pulls
\* has read the tree as it is now (never recomputed, never modified).
C12_TreeComputedOnce ==
    /\ treeCalls <= 1
    /\ \A i \in 1..Len(treeRead) :
          /\ treeRead[i].map # <<>>
          /\ treeRead[i] = [map |-> map, invMap |-> invMap]
    /\ Len(treeRead) > 0 => treeCalls = 1
    /\ (SetupDone /\ ctrl.system = "AUGMENTED_KKT"
          /\ ~(ctrl.primalInitialized /\ ctrl.dualInitialized))
       => treeCalls = 1
    /\ (treeCalls = 1 /\ treeRead = <<>>)
       => (ctrl.system = "AUGMENTED_KKT"
             /\ ~(ctrl.primalInitialized /\ ctrl.dualInitialized))

\* a second round of Pulls has read the tree computed at iteration 0
C12_Witness ==
    /\ Len(treeRead) >= 2
    /\ ctrl.system = "FULL_KKT"
    /\ treeCalls = 1
    /\ map[1] # 1

(***************************************************************************)
(* Properties of the multi-shift solves (checked under SpecMS)             *)
(***************************************************************************)
\* height of the system column col of the diagonal block solve belongs to
XHeight(col) == Min(Len(U), col - 1)

\* row i of (U[1..h,1..h] - shifts[col] I) xv = s bv, for h = Len(xv)
RowSolved(col, xv, s, bv, i) ==
    RSum([k \in 1..Len(xv) |->
            RMul(IF k = i THEN RSub(U[i][k], shifts[col]) ELSE U[i][k],
                 xv[k])]) = RMul(s, bv[i])

ColumnSolved(col, xv, s, bv) ==
    \A i \in 1..Len(xv) : RowSolved(col, xv, s, bv, i)

\* C13: for every column j >= 1 of MultiShiftDiagonalBlockSolve the returned
\* column x_j and scale s_j satisfy (U[0:h,0:h] - sigma_j I) x_j = s_j b_j
\* in exact arithmetic, where h = min(n, j) and b_j is X(0:h, j) on entry.
C13_ColumnSolvesScaledSystem ==
    mpc = "BlockDone" =>
        \A col \in 2..Len(shifts) :
            ColumnSolved(col, Column(XS, col, XHeight(col)), scales[col],
                         Column(B, col, XHeight(col)))

\* the columns the loop body solves: neither left alone because the whole
\* right-hand side is at most smallNum, nor holding a zero pivot whose
\* right-hand-side entry is below smallNum
C13_SolvedColumnsSatisfySystem ==
    mpc = "BlockDone" =>
        \A col \in 2..Len(shifts) :
            (cols[col].path # "skipped" /\ "zeroSmall" \notin cols[col].guards)
            => ColumnSolved(col, Column(XS, col, XHeight(col)), scales[col],
                            Column(B, col, XHeight(col)))

\* C14: column 0 is always skipped: MultiShiftDiagonalBlockSolve and
\* MultiShiftSolve leave column 0 of X as the caller gave it and return
\* scales[0] = 1; with a single shift nothing is computed, X is returned
\* unchanged and scales = (1).
C14_ColumnZeroSkipped ==
    /\ mpc # "idle" => \A i \in 1..Len(XS) : XS[i][1] = B[i][1]
    /\ mpc \in {"BlockDone", "MSDone"} =>
          /\ scales[1] = R(1)
          /\ cols[1].path = "none" /\ cols[1].guards = {}
          /\ Len(shifts) = 1 => (XS = B /\ scales = <<R(1)>>)

\* the blocked solve has returned after rescaling and solving other columns
C14_Witness ==
    /\ mpc = "MSDone"
    /\ Len(shifts) > 1
    /\ \E col \in 2..Len(shifts) : scales[col] # R(1) /\ XS[1][col] # B[1][col]
    /\ scales[1] = R(1)

\* the column the loop body starts on, and the two ways of solving it
ShiftedU(col) == ShiftDiagonal(U, RNeg(shifts[col]))
EntryColumn(col) == Prescale(ColumnStart(Column(B, col, XHeight(col))))
ForcedSlow(col) == SlowPath(ShiftedU(col), ColumnNorms(U), EntryColumn(col))
ForcedFast(col) == FastPath(ShiftedU(col), EntryColumn(col))
Unguarded(col) == EntryColumn(col).guards = {} /\ ForcedSlow(col).guards = {}

\* C15: for a column that triggers none of the overflow guards (no prescale,
\* no division guard, no update guard, no zero pivot) the slow backward
\* substitution gives the same column as the fast solve, both are the
\* solution of (U - sigma_j I) x_j = b_j, and the scale is 1 on both paths.
C15_SlowMatchesFast ==
    mpc = "BlockDone" =>
        \A col \in 2..Len(shifts) :
            Unguarded(col) =>
                /\ ForcedSlow(col).xj = ForcedFast(col).xj
                /\ ForcedSlow(col).scale = R(1)
                /\ ForcedFast(col).scale = R(1)
                /\ ColumnSolved(col, ForcedSlow(col).xj, R(1),
                                Column(B, col, XHeight(col)))
                /\ cols[col].path \in {"slow", "fast"} =>
                      /\ Column(XS, col, XHeight(col)) = ForcedSlow(col).xj
                      /\ scales[col] = R(1)

\* one column went down the slow path without a guard, another of height 2
\* down the fast path, and the slow path on the latter needs no guard either
C15_Witness ==
    /\ mpc = "BlockDone"
    /\ \E col \in 2..Len(shifts) :
          cols[col].path = "slow" /\ cols[col].guards = {}
    /\ \E col \in 2..Len(shifts) :
          /\ cols[col].path = "fast" /\ XHeight(col) = 2 /\ Unguarded(col)
          /\ ForcedSlow(col).xj # Column(B, col, 2)

(***************************************************************************)
(* Properties of the nodal remap with empty owners                         *)
(***************************************************************************)
\* process p holds no local supernode
EmptyOwner(p) == info[p].localNodes = <<>>

\* C16: a process with zero local supernodes is a valid empty owner: Pull,
\* Push, LocalHeight and UpdateWidth complete on it without error and
\* without any out-of-range access (checked under SpecOwner).
C16_EmptyOwnerValid ==
    (\E p \in Procs : EmptyOwner(p)) => nerr = "none"

\* Pull and Push alone do complete with empty owners, which still take part
\* in every exchange (checked under SpecNodal)
C16_PullPushCompleteOnEmptyOwner ==
    /\ nerr = "none"
    /\ npc \in {"PullFulfill", "PullUnpack", "PushUnpack", "Done"} =>
          \A p \in Procs :
              EmptyOwner(p) =>
                  /\ DOMAIN sizes[p].send = Procs
                  /\ DOMAIN sizes[p].recv = Procs

\* what p sends to q is what q expects from p, and the buffers of indices
\* and of values have the sizes the counts announce
CountsMatch ==
    \A p \in Procs : \A q \in Procs : sizes[p].send[q] = sizes[q].recv[p]
IndsMatch ==
    \A p \in Procs :
        /\ Len(inds[p].send) = ScanTotal(sizes[p].send)
        /\ Len(inds[p].recv) = ScanTotal(sizes[p].recv)
ValsMatch ==
    \A p \in Procs :
        /\ Len(vals[p].send) = width * ScanTotal(sizes[p].send)
        /\ Len(vals[p].recv) = width * ScanTotal(sizes[p].recv)

Senders(i) ==
    {pk \in UNION {{<<p, k>> : k \in 1..Len(mappedInds[p])} : p \in Procs} :
        mappedInds[pk[1]][pk[2]] = i}

\* the rows process q owns of the flat vector of Push
OwnedRows(q) == {i \in 0..(TreeHeight - 1) : RowOwner(TreeHeight, i) = q}

\* C18: Push writes every row of the flat vector exactly once and only on
\* its owner: every row is sent by exactly one process, the indices a
\* process receives are exactly the rows it owns, without duplicates (their
\* number is X.LocalHeight(), the check of lines 279-282 never fails), and no
\* row is left unset.
C18_PushWritesEachRowOnce ==
    /\ nerr = "none"
    /\ npc \in {"PushExchange", "PushUnpack", "Done"} =>
          \A i \in 0..(TreeHeight - 1) : Cardinality(Senders(i)) = 1
    /\ npc \in {"PushUnpack", "Done"} =>
          \A q \in Procs :
              /\ Len(inds[q].recv) = XLocalHeight(TreeHeight, q)
              /\ {inds[q].recv[k] : k \in 1..Len(inds[q].recv)} = OwnedRows(q)
    /\ npc = "Done" =>
          /\ Len(Y) = TreeHeight
          /\ \A i \in 1..TreeHeight : Y[i] # Unwritten

\* Push is over on the largest team, every process owns a row, and some row
\* came from a process that does not own it
C18_Witness ==
    /\ npc = "Done"
    /\ commSize = MaxProcs
    /\ \A q \in Procs : OwnedRows(q) # {}
    /\ \E p \in Procs : \E q \in Procs : p # q /\ sizes[p].send[q] > 0
    /\ \A i \in 1..TreeHeight : Y[i] # Unwritten

(***************************************************************************)
(* Properties of the entry scaling (checked under SpecScaling)             *)
(***************************************************************************)
CallerInitialized == ctrl.primalInitialized /\ ctrl.dualInitialized
AllOnes(v) == \A i \in 1..Len(v) : v[i] = R(1)

\* C20: Unequilibrate inverts the entry scaling: for positive dRow and dCol
\* and a caller-initialized (x, y, z), scaling x by dCol and y by dRow and
\* dividing z by dCol, then dividing x by dCol and y by dRow and scaling z by
\* dCol, returns the original (x, y, z); with all-ones scalings both passes
\* leave (x, y, z) unchanged.
C20_UnequilibrateInvertsScaling ==
    /\ (pc = "Done" /\ CallerInitialized) =>
          x = entry.x /\ y = entry.y /\ z = entry.z
    /\ (AllOnes(dRow) /\ AllOnes(dCol)) =>
          x = entry.x /\ y = entry.y /\ z = entry.z

\* both passes have run with scalings that changed every part of a
\* caller-initialized iterate in between
C20_Witness ==
    /\ pc = "Done"
    /\ CallerInitialized
    /\ ~AllOnes(dRow) /\ ~AllOnes(dCol)
    /\ DiagonalScale(dCol, entry.x) # entry.x
    /\ DiagonalScale(dRow, entry.y) # entry.y
    /\ DiagonalSolve(dCol, entry.z) # entry.z
    /\ x = entry.x /\ y = entry.y /\ z = entry.z

(***************************************************************************)
(* Properties of the distributed MultiShiftSolve (checked under SpecDist)  *)
(***************************************************************************)
\* the panel at offset kPanel: its height, and what the diagonal block solve
\* returns for it
PanelHeight == Min(bsize, Len(XS) - kPanel)
PanelSolve ==
    MultiShiftDiagonalBlockSolve(
        [i \in 1..PanelHeight |-> [cb \in 1..PanelHeight |->
            U[kPanel + i][kPanel + cb]]],
        [cb \in 1..(Len(shifts) - kPanel) |-> shifts[kPanel + cb]],
        [i \in 1..PanelHeight |-> [cb \in 1..(Len(shifts) - kPanel) |->
            XS[kPanel + i][kPanel + cb]]])
DistPanelDone == mpc = "DistPanel" /\ mpc' # "MSError"

\* the update of the rows above the panel can take column col to bigNum
\* whatever bound XMax[col] >= 0 the column had:
\* nb * cNorm * max|X1[:,col]| >= bigNum
GemmOverflows(col) ==
    RLeq(bigNum,
         RMul(RMul(R(PanelHeight), PanelNorm(U, kPanel, PanelHeight)),
              MaxNorm([i \in 1..PanelHeight |-> XS'[kPanel + i][col]])))

\* C21: in the distributed MultiShiftSolve, as in the local one, the
\* overflow check of the matrix-multiply update is applied before the update
\* of each panel with k > 0: every active column whose update could reach
\* bigNum is rescaled by the GEMM guard.
C21_GemmGuardApplied ==
    [][(DistPanelDone /\ kPanel > 0) =>
          \A col \in (kPanel + 1)..Len(shifts) :
              GemmOverflows(col) => "gemm" \in cols'[col].guards]_vars

\* the factor the panel's sigma asks for in column col
SigmaFactor(sigma, col) ==
    IF RLt(sigma[col - kPanel], R(1)) THEN sigma[col - kPanel] ELSE R(1)
SigmaApplied(sigma) ==
    \A col \in (kPanel + 1)..Len(shifts) :
        /\ scales'[col] = RMul(SigmaFactor(sigma, col), scales[col])
        /\ \A i \in (kPanel + PanelHeight + 1)..Len(XS) :
              XS'[i][col] = RMul(SigmaFactor(sigma, col), XS[i][col])

\* C22: after each panel of the distributed MultiShiftSolve, for every
\* active column j: the rows of column j below the panel and scales[j] are
\* multiplied by sigma_j once if sigma_j < 1, and are unchanged otherwise,
\* whatever the grid shape.
C22_SigmaAppliedOnce ==
    [][DistPanelDone => SigmaApplied(PanelSolve.scales)]_vars

\* on a grid with one process column, where local and global column indices
\* coincide, the scales are applied once
C22_OneColumnGridAppliesOnce ==
    [][(DistPanelDone /\ grid[2] = 1) => SigmaApplied(PanelSolve.scales)]_vars

(***************************************************************************)
(* Properties of Pull in both builds (checked under SpecBuilds)            *)
(***************************************************************************)
PullRequested == npc # "PullRequest"
PullUnpacked == unpacked # <<>>
FilledDiffers ==
    PullRequested /\ \E p \in Procs : PullFilled(p) # PullNumRecvInds(p)
UnpackedDiffers ==
    PullUnpacked /\ \E p \in Procs : unpacked[p] # PullNumRecvInds(p)
PullLogicError ==
    /\ npc = "Error"
    /\ nerr \in {"LogicError: mappedInds was filled incorrectly",
                 "LogicError: Unpacked wrong number of indices"}
ValidCountsMatch ==
    ValidTree =>
        /\ PullRequested =>
              \A p \in Procs : PullFilled(p) = PullNumRecvInds(p)
        /\ PullUnpacked =>
              \A p \in Procs : unpacked[p] = PullNumRecvInds(p)

Factors == {R(1), R(10), R(100)}
CarriesFactor(r, f) ==
    regCand[r] = Scale(f, InitialShard(treeRead.system, treeRead.m,
                                       treeRead.n, Cardinality(Ranks), r))
\* whether process r raised regCand in its iteration i
Escalated(r, i) ==
    ShouldIncrease(reports[r][i], \E k \in 1..(i - 1) : reports[r][k] > 3)

CapRaised ==
    /\ pc = "Error"
    /\ err = "RuntimeError: Maximum number of iterations exceeded"

\* C25: for every value of ctrl.maxIts, negative ones included, and iterates
\* that never pass the convergence test, the loop ends after finitely many
\* iterations.
C25_LoopEnds == <>(pc = "Error")

\* with a cap that is not negative the loop of a valid KKT system ends with
\* the iteration-cap RuntimeError, at numIts = ctrl.maxIts
C25_NonnegativeCapEnds ==
    (ctrl.maxIts >= 0 /\ ValidSystem(ctrl.system))
        ~> (CapRaised /\ numIts = ctrl.maxIts)

(***************************************************************************)
(* Frame of the diagonal block solve (checked under SpecMS)                *)
(***************************************************************************)
\* C26: MultiShiftDiagonalBlockSolve returns U exactly as it was on entry:
\* the diagonal, overwritten with diag(U) - sigma_j for each shift, is
\* restored on every path, whether columns are skipped, solved on the slow
\* path, or there is no column to process.
C26_UReturnedAsOnEntry ==
    [][(mpc = "start" /\ mpc' = "BlockDone") => U' = U]_vars

\* the call shifted the diagonal for its last column, skipped one column
\* and took another down the slow path
C26_Witness ==
    /\ mpc = "BlockDone"
    /\ Len(shifts) > 2
    /\ shifts[Len(shifts)] # R(0)
    /\ \E col \in 2..Len(shifts) : cols[col].path = "skipped"
    /\ \E col \in 2..Len(shifts) : cols[col].path = "slow"

(***************************************************************************)
(* The scales (checked under SpecMS)                                       *)
(***************************************************************************)
RescalingGuards ==
    {"prescale", "division", "update", "zeroPivot", "sigma", "gemm"}
ScalesSet == scales # <<>>

\* a scale is 1, or at most 1/2 and not negative
ScaleInRange(s) == s = R(1) \/ (RLeq(R(0), s) /\ RLeq(s, oneHalf))

\* from s to next the column was left alone or rescaled by at most 1/2
RescaledByHalf(s, next) ==
    next = s \/ (RLeq(R(0), next) /\ RLeq(next, RMul(oneHalf, s)))

\* C27: every scale returned by MultiShiftDiagonalBlockSolve and by the
\* local MultiShiftSolve lies in [0, 1]; during a call scales[j] never
\* increases, each rescaling being by a factor of at most 1/2; and a column
\* that is never rescaled keeps the scale 1.
C27_ScalesOnlyShrink ==
    /\ [](ScalesSet =>
            \A col \in 1..Len(scales) :
                /\ ScaleInRange(scales[col])
                /\ cols[col].guards \cap RescalingGuards = {}
                      => scales[col] = R(1))
    /\ [][ScalesSet =>
            \A col \in 1..Len(scales) :
                RescaledByHalf(scales[col], scales'[col])]_vars

\* the blocked solve returned one column rescaled more than once by its
\* panels, and one never rescaled
C27_Witness ==
    /\ mpc = "MSDone"
    /\ \E col \in 1..Len(scales) :
          /\ "sigma" \in cols[col].guards
          /\ RLt(R(0), scales[col]) /\ RLeq(scales[col], oneQuarter)
    /\ \E col \in 2..Len(scales) :
          /\ cols[col].guards \cap RescalingGuards = {}
          /\ cols[col].path \in {"fast", "slow"}
          /\ scales[col] = R(1)

(***************************************************************************)
(* Zero pivots (checked under SpecMS)                                      *)
(***************************************************************************)
\* the last row of column col holds an exactly zero shifted pivot under a
\* right-hand-side entry of magnitude at least smallNum, and the column is
\* not prescaled
ZeroPivotAtLastRow(col) ==
    /\ XHeight(col) >= 1
    /\ ShiftedU(col)[XHeight(col)][XHeight(col)] = R(0)
    /\ RLeq(smallNum, RAbs(B[XHeight(col)][col]))
    /\ EntryColumn(col).guards = {}

\* (U - sigma_j I) x_j = 0 on the rows of the column
Homogeneous(col) ==
    \A i \in 1..XHeight(col) :
        RSum([k \in 1..XHeight(col) |->
                RMul(ShiftedU(col)[i][k], XS[k][col])]) = R(0)

\* some zero pivot row holds the 1, the rows below it hold zeros
UnitAtZeroPivot(col) ==
    \E i \in 1..XHeight(col) :
        /\ ShiftedU(col)[i][i] = R(0)
        /\ XS[i][col] = R(1)
        /\ \A k \in (i + 1)..XHeight(col) : XS[k][col] = R(0)

NullVectorReturned(col) ==
    /\ cols[col].path = "slow"
    /\ "zeroPivot" \in cols[col].guards
    /\ UnitAtZeroPivot(col)
    /\ Homogeneous(col)
    /\ scales[col] = R(0)

\* C28: when a shifted diagonal entry is exactly zero and the right-hand-side
\* entry at its row has magnitude at least smallNum, the column goes down
\* the slow path: the entry is set to 1, the others to zero, the returned
\* column solves (U - sigma_j I) x = 0 and its scale is 0.
C28_ZeroPivotGivesNullVector ==
    mpc = "BlockDone" =>
        \A col \in 2..Len(shifts) :
            ZeroPivotAtLastRow(col) => NullVectorReturned(col)

\* the same for the columns whose largest entry exceeds smallNum, which the
\* loop body does not leave alone
C28_ZeroPivotOnSolvedColumn ==
    mpc = "BlockDone" =>
        \A col \in 2..Len(shifts) :
            (ZeroPivotAtLastRow(col) /\ cols[col].path # "skipped")
                => NullVectorReturned(col)

\* ---- C29 ----
WellFormed(range) ==
    /\ 0 <= range[1]
    /\ range[1] <= range[2]
    /\ range[2] <= range[3]

PrescaleTaken == mpc = "start" /\ mpc' \in {"Panel", "MSError"}
PanelTaken == mpc = "Panel" /\ (mpc' # "Panel" \/ kPanel' # kPanel)

\* C29: in the local blocked MultiShiftSolve every range of rows or columns
\* taken from U, X and shifts has 0 <= begin <= end <= extent: X(0:j, j) in
\* the prescale and GEMM-guard loops, the panel's ind0, ind1, ind2 and
\* k:END, and X(k+nb:j, j) for the columns whose sigma is below 1.
C29_RangesWellFormed ==
    [][/\ PrescaleTaken =>
            \A range \in PrescaleRanges(XS, shifts) : WellFormed(range)
       /\ PanelTaken =>
            /\ \A range \in PanelRanges(XS, shifts, kPanel, bsize) :
                  WellFormed(range)
            /\ \A range \in SigmaRanges(U, shifts, XS, kPanel, bsize) :
                  WellFormed(range)
            /\ \A range \in GemmRanges(XS, shifts, kPanel) :
                  WellFormed(range)]_vars

\* the prescale loop alone, on a matrix with no more than m + 1 columns
C29_PrescaleRangesWellFormed ==
    [][(PrescaleTaken /\ Len(shifts) <= Len(XS) + 1) =>
          \A range \in PrescaleRanges(XS, shifts) : WellFormed(range)]_vars

\* ---- C30 ----
Superdiagonal(M, v) == \A i \in 1..(Len(M) - 1) : M[i][i + 1] = v
Subdiagonal(M, v) == \A i \in 2..Len(M) : M[i][i - 1] = v
Square(M, n) == Len(M) = n /\ \A i \in 1..n : Len(M[i]) = n

\* C30: called with n < 3, HatanoNelson raises a LogicError and leaves A with
\* the size and contents it had; with n >= 3 it raises nothing and A becomes
\* n-by-n with exp(g) on the superdiagonal, exp(-g) on the subdiagonal, and
\* the corners A(n-1,0) = exp(g), A(0,n-1) = exp(-g) when periodic, zero
\* otherwise.
C30_HatanoNelsonChecksOrder ==
    /\ [][(hpc = "start" /\ hn.n < 3) =>
            (hpc' = "Error" /\ herr' = "LogicError" /\ HNA' = HNA)]_vars
    /\ []((hpc # "idle" /\ hn.n >= 3) => (hpc # "Error" /\ herr = "none"))
    /\ [](hpc = "Done" =>
            /\ Square(HNA, hn.n)
            /\ Superdiagonal(HNA, Exp(hn.g))
            /\ Subdiagonal(HNA, Exp(-hn.g))
            /\ HNA[hn.n][1] = IF hn.periodic THEN Exp(hn.g) ELSE Num(R(0))
            /\ HNA[1][hn.n] = IF hn.periodic THEN Exp(-hn.g) ELSE Num(R(0)))

\* a call with n = 2 on a matrix that held an entry has ended in the error,
\* the entry still there
C30_Witness ==
    /\ hpc = "Error" /\ herr = "LogicError"
    /\ hn.n = 2
    /\ HNA = <<<<Num(R(6))>>>>

====
